---- MODULE Spec2Model ----
\* Verification model of the content-skimmer processing core:
\* circuit breaker (src/src/utils/CircuitBreaker.ts), retry queue
\* (src/src/events/RetryQueue.ts), event bus (src/src/events/EventBus.ts),
\* data-service gateway (src/src/services/DataService.ts) and the
\* processFile pipeline (src/src/core/ContentSkimmer.ts).
\* Time is Date.now() in milliseconds.
EXTENDS Integers, Sequences, FiniteSets, TLC

VARIABLES
  now,        \* Date.now(), shared clock
  cb,         \* CircuitBreaker.state of the breaker under study
  cbCfg,      \* its service name and CircuitBreaker.config
  cbCalls,    \* execute() calls: slot -> position, fallback kind, last outcome
  cbHist,     \* history: calls started, consecutive failures, trial call, last step
  rq,         \* the RetryQueue under study (record, see RetryQueueInit)
  breakers,   \* circuitBreakerManager: service name -> CircuitBreakerState
  providers,  \* AIOrchestrator.providers, in configuration order
  pf,         \* processFile invocations: position, event, error, log, own RetryQueue
  eb,         \* the EventBus under study (record, see EventBusInit)
  isolate     \* the isolate's ContentSkimmer objects and analyzeContent calls

cbVars == <<cb, cbCfg, cbCalls, cbHist>>
pfVars == <<breakers, providers, pf>>
ebVars == <<eb>>
isoVars == <<isolate>>
vars == <<now, cb, cbCfg, cbCalls, cbHist, rq, breakers, providers, pf, eb, isolate>>

\* ---------------------------------------------------------------- bounds
MaxTime == 120000
MaxCalls == 7
MaxConcurrent == 2
MaxRegs == 2
RQMaxTime == 10000
MaxInvocations == 2
PFMaxTime == 60000
MaxHandlers == 2
MaxProviders == 3
MaxEmits == 2
MaxRequests == 2
MaxAnalyses == 2
OPMaxTime == 86400000
MaxCacheOps == 4
MaxChecks == 2

\* ------------------------------------------------------- circuit breaker
DefaultFailureThreshold == 5
DefaultRecoveryTimeout == 60000

\* constructor: `config.failureThreshold || 5`, `config.recoveryTimeout ||
\* 60000`, then the spread `...config` (line 27), which puts back every key
\* the caller's object has: the defaults stand for absent keys only, and a
\* 0 given by the caller stays 0. A key of the config object is the set
\* holding its value, empty when the object has no such key (a key present
\* with the value undefined is not among the configs followed here).
BreakerConfig(threshold, timeout) ==
  [failureThreshold |-> IF threshold = {} THEN DefaultFailureThreshold
                        ELSE CHOOSE n \in threshold : TRUE,
   recoveryTimeout  |-> IF timeout = {} THEN DefaultRecoveryTimeout
                        ELSE CHOOSE n \in timeout : TRUE]

\* constructor / reset(): the initial CircuitBreakerState
BreakerInit ==
  [failures |-> 0, lastFailureTime |-> 0, state |-> "CLOSED", nextAttemptTime |-> 0]

\* faulty variant: the trial transition clears the failure count
shouldReject_resetsCount(b, t) ==
  CASE b.state = "CLOSED"    -> [reject |-> FALSE, st |-> b]
    [] b.state = "OPEN"      ->
         IF t >= b.nextAttemptTime
         THEN [reject |-> FALSE, st |-> [b EXCEPT !.state = "HALF_OPEN", !.failures = 0]]
         ELSE [reject |-> TRUE, st |-> b]
    [] b.state = "HALF_OPEN" -> [reject |-> FALSE, st |-> b]
    [] OTHER                 -> [reject |-> FALSE, st |-> b]

\* faulty variant: a refused call restarts the recovery timer
shouldReject_restartsTimer(b, t) ==
  CASE b.state = "CLOSED"    -> [reject |-> FALSE, st |-> b]
    [] b.state = "OPEN"      ->
         IF t >= b.nextAttemptTime
         THEN [reject |-> FALSE, st |-> [b EXCEPT !.state = "HALF_OPEN"]]
         ELSE [reject |-> TRUE,
               st |-> [b EXCEPT !.nextAttemptTime = t + DefaultRecoveryTimeout]]
    [] b.state = "HALF_OPEN" -> [reject |-> FALSE, st |-> b]
    [] OTHER                 -> [reject |-> FALSE, st |-> b]

\* shouldReject(): the verdict and the (possibly HALF_OPEN) state it leaves
shouldReject(b, t) ==
  CASE b.state = "CLOSED"    -> [reject |-> FALSE, st |-> b]
    [] b.state = "OPEN"      ->
         IF t >= b.nextAttemptTime
         THEN [reject |-> FALSE, st |-> [b EXCEPT !.state = "HALF_OPEN"]]
         ELSE [reject |-> TRUE, st |-> b]
    [] b.state = "HALF_OPEN" -> [reject |-> FALSE, st |-> b]
    [] OTHER                 -> [reject |-> FALSE, st |-> b]

\* faulty variant: a success that leaves the failure count as it is
onSuccess_keepsCount(b) ==
  [b EXCEPT !.state = "CLOSED", !.nextAttemptTime = 0]

onSuccess(b) ==
  [b EXCEPT !.failures = 0, !.state = "CLOSED", !.nextAttemptTime = 0]

\* faulty variant: the threshold comparison off by one (> for >=)
onFailure_offByOne(b, t, cfg) ==
  LET f == b.failures + 1 IN
  IF f > cfg.failureThreshold
  THEN [b EXCEPT !.failures = f, !.lastFailureTime = t, !.state = "OPEN",
                 !.nextAttemptTime = t + cfg.recoveryTimeout]
  ELSE [b EXCEPT !.failures = f, !.lastFailureTime = t]

onFailure(b, t, cfg) ==
  LET f == b.failures + 1 IN
  IF f >= cfg.failureThreshold
  THEN [b EXCEPT !.failures = f, !.lastFailureTime = t, !.state = "OPEN",
                 !.nextAttemptTime = t + cfg.recoveryTimeout]
  ELSE [b EXCEPT !.failures = f, !.lastFailureTime = t]

\* Fallback kinds of the callers: "none" (no fallback argument), "value" (the
\* fallback resolves: placeholder metadata, or a logged no-op) and "throws"
\* (sendProcessingCallback's fallback, which rejects).
FallbackKinds == {"none", "value", "throws"}

\* what `return fallback()` settles to
fallbackOutcome(fb) ==
  IF fb = "throws" THEN "threw_fallback_error" ELSE "returned_fallback"

\* execute(), rejected branch (lines 42-48)
executeRejected(fb) ==
  IF fb # "none" THEN fallbackOutcome(fb) ELSE "threw_circuit_open"

\* faulty variant: the fallback is used for every failure, whatever the state
executeFailed_anyState(b, fb) ==
  IF fb # "none" THEN fallbackOutcome(fb) ELSE "threw_op_error"

\* execute(), catch branch (lines 54-63): b is the state after onFailure
executeFailed(b, fb) ==
  IF fb # "none" /\ b.state = "OPEN" THEN fallbackOutcome(fb) ELSE "threw_op_error"

\* DataService: fallback kind each gateway method passes to its breaker
ServiceFallback(svc) ==
  CASE svc = "data-service-metadata" -> "value"
    [] svc = "data-service-analysis" -> "value"
    [] svc = "data-service-status"   -> "value"
    [] svc = "data-service-webhook"  -> "throws"
    [] OTHER                         -> "none"

\* DataService.getFileMetadata: the value the caller receives for an outcome
ServerMetadata(fileId) ==
  [fileId |-> fileId, filename |-> "report.txt", mimeType |-> "text/plain", fallback |-> FALSE]

FallbackMetadata(fileId) ==
  [fileId |-> fileId, filename |-> "unknown-file",
   mimeType |-> "application/octet-stream", fallback |-> TRUE]

getFileMetadataValue(outcome, fileId) ==
  CASE outcome = "returned_op"       -> ServerMetadata(fileId)
    [] outcome = "returned_fallback" -> FallbackMetadata(fileId)
    [] OTHER                         -> [fileId |-> fileId, filename |-> "", mimeType |-> "", fallback |-> FALSE]

\* ------------------------------------------------------------ retry queue
DefaultMaxRetries == 3
PassDelay == 5000
BackoffBase == 1000

RECURSIVE Pow2(_)
Pow2(n) == IF n = 0 THEN 1 ELSE 2 * Pow2(n - 1)

\* A RetryQueue. operations is the Map in insertion order, holding references
\* (indices into objs) to the RetryableOperation objects; objs keeps every
\* object ever registered, since a running pass holds its own references.
\* ready is the not yet finished part of the running pass' readyOperations
\* (its head is the operation being awaited), passNow the pass' `now`, timers
\* the pending setTimeout deadlines. hist counts, per object, the invocations
\* and records success and replacement (same id registered again); active
\* counts the processQueue calls between their start and their finally block,
\* lastEnd is the time the last pass ended.
RetryQueueInit ==
  [operations |-> <<>>, objs |-> <<>>, isProcessing |-> FALSE, passNow |-> 0,
   ready |-> <<>>, timers |-> <<>>, hist |-> <<>>, active |-> 0, lastEnd |-> 0]

\* Array.from(this.operations.values()).filter(op => op.nextRetryAt <= now)
readyOperations(q, t) ==
  LET F[i \in 0..Len(q.operations)] ==
        IF i = 0 THEN <<>>
        ELSE IF q.objs[q.operations[i]].nextRetryAt <= t
             THEN Append(F[i - 1], q.operations[i]) ELSE F[i - 1]
  IN F[Len(q.operations)]

\* Map.set(id, op): replaces in place when the key exists, else appends
MapSet(q, id, reg) ==
  IF \E p \in 1..Len(q.operations) : q.objs[q.operations[p]].id = id
  THEN [p \in 1..Len(q.operations) |->
          IF q.objs[q.operations[p]].id = id THEN reg ELSE q.operations[p]]
  ELSE Append(q.operations, reg)

\* Map.delete(id)
MapDelete(q, id) ==
  LET F[i \in 0..Len(q.operations)] ==
        IF i = 0 THEN <<>>
        ELSE IF q.objs[q.operations[i]].id # id
             THEN Append(F[i - 1], q.operations[i]) ELSE F[i - 1]
  IN F[Len(q.operations)]

\* faulty variant: a pass that ends without scheduling a further one
passContinue_noTimer(q, t) ==
  IF q.ready # <<>>
  THEN [q EXCEPT !.hist[Head(q.ready)].inv = @ + 1]
  ELSE [q EXCEPT !.isProcessing = FALSE, !.active = @ - 1, !.lastEnd = t]

\* the loop of processQueue from `for (const op of readyOperations)` on: the
\* next ready operation is invoked and awaited, or the pass ends (finally
\* block, then the setTimeout when operations remain)
passContinue(q, t) ==
  IF q.ready # <<>>
  THEN [q EXCEPT !.hist[Head(q.ready)].inv = @ + 1]
  ELSE [q EXCEPT !.isProcessing = FALSE, !.active = @ - 1, !.lastEnd = t,
                 !.timers = IF Len(q.operations) > 0 THEN Append(@, t + PassDelay) ELSE @]

\* faulty variant: a processQueue without the isProcessing test
processQueue_noGuard(q, t) ==
  passContinue([q EXCEPT !.isProcessing = TRUE, !.passNow = t, !.active = @ + 1,
                         !.ready = readyOperations(q, t)], t)

\* processQueue() up to its first await
processQueue(q, t) ==
  IF q.isProcessing THEN q
  ELSE passContinue([q EXCEPT !.isProcessing = TRUE, !.passNow = t, !.active = @ + 1,
                            !.ready = readyOperations(q, t)], t)

\* addOperation(id, operation, maxRetries)
addOperation(q, id, maxRetries, t) ==
  LET reg == Len(q.objs) + 1
      q1 == [q EXCEPT
               !.objs = Append(@, [id |-> id, maxRetries |-> maxRetries,
                                   currentRetry |-> 0, nextRetryAt |-> t]),
               !.hist = Append([r \in 1..Len(@) |->
                                  IF r \in {q.operations[p] : p \in 1..Len(q.operations)}
                                     /\ q.objs[r].id = id
                                  THEN [@[r] EXCEPT !.replaced = TRUE] ELSE @[r]],
                               [inv |-> 0, ok |-> FALSE, replaced |-> FALSE])]
  IN processQueue([q1 EXCEPT !.operations = MapSet(q1, id, reg)], t)

\* faulty variant: the exhaustion test off by one (> for >=)
opFailed_offByOne(q, op) ==
  LET n == q.objs[op].currentRetry + 1 IN
  IF n > q.objs[op].maxRetries
  THEN [q EXCEPT !.objs[op].currentRetry = n,
                 !.operations = MapDelete(q, q.objs[op].id)]
  ELSE [q EXCEPT !.objs[op].currentRetry = n,
                 !.objs[op].nextRetryAt = q.passNow + Pow2(n) * BackoffBase]

\* processQueue's catch block for the awaited operation op
opFailed(q, op) ==
  LET n == q.objs[op].currentRetry + 1 IN
  IF n >= q.objs[op].maxRetries
  THEN [q EXCEPT !.objs[op].currentRetry = n,
                 !.operations = MapDelete(q, q.objs[op].id)]
  ELSE [q EXCEPT !.objs[op].currentRetry = n,
                 !.objs[op].nextRetryAt = q.passNow + Pow2(n) * BackoffBase]

\* `this.operations.delete(op.id)` after the awaited operation resolved
opSucceeded(q, op) ==
  [q EXCEPT !.operations = MapDelete(q, q.objs[op].id), !.hist[op].ok = TRUE]

\* faulty variant: a loop without its inner try block, which a failure ends
processQueueResume_abortsPass(q, ok, t) ==
  LET op == Head(q.ready)
      q1 == IF ok THEN opSucceeded(q, op) ELSE opFailed(q, op)
  IN passContinue([q1 EXCEPT !.ready = IF ok THEN Tail(q.ready) ELSE <<>>], t)

\* processQueue() resumed when the awaited operation settles at time t
processQueueResume(q, ok, t) ==
  LET op == Head(q.ready)
      q1 == IF ok THEN opSucceeded(q, op) ELSE opFailed(q, op)
  IN passContinue([q1 EXCEPT !.ready = Tail(q.ready)], t)

\* a setTimeout callback: () => this.processQueue()
timerFired(q, t) == processQueue([q EXCEPT !.timers = Tail(@)], t)

\* -------------------------------------------------------------- event bus
EventTypes == {"analysis_completed", "analysis_failed"}

\* An EventBus. handlers is the Map type -> array of handlers; emits holds
\* one record per emit call, in call order: the emitted type, run, the calls
\* handlers.map has made (the handler and the state of the promise it
\* returned, "threw" when it returned none), and st, the state of emit's own
\* promise.
EventBusInit == [handlers |-> [ty \in EventTypes |-> <<>>], emits |-> <<>>]

\* An EventHandler is a function (event) => Promise<void>; what it does
\* when called, before it returns its promise: nothing to the bus (an async
\* function whose body awaits first), it throws (a function that is not
\* async), or it unsubscribes itself with off(event.type, itself).
Handlers == {"h1", "h2", "h3"}
beforeFirstAwait(h) ==
  CASE h = "h2" -> "throws"
    [] h = "h3" -> "off"
    [] OTHER    -> "none"

\* on(eventType, handler)
on(b, ty, h) == [b EXCEPT !.handlers[ty] = Append(@, h)]

\* handlers.indexOf(handler): 0 when absent
indexOf(hs, h) ==
  IF \E k \in 1..Len(hs) : hs[k] = h
  THEN CHOOSE k \in 1..Len(hs) : hs[k] = h /\ \A j \in 1..(k - 1) : hs[j] # h
  ELSE 0

\* faulty variant: an off that removes every registration of the handler
off_removesAll(b, ty, h) ==
  LET hs == b.handlers[ty]
      F[k \in 0..Len(hs)] ==
        IF k = 0 THEN <<>> ELSE IF hs[k] = h THEN F[k - 1] ELSE Append(F[k - 1], hs[k]) IN
  [b EXCEPT !.handlers[ty] = F[Len(hs)]]

\* off(eventType, handler): splice(index, 1) when found
off(b, ty, h) ==
  LET hs == b.handlers[ty]  k == indexOf(hs, h) IN
  IF k = 0 THEN b
  ELSE [b EXCEPT !.handlers[ty] = SubSeq(hs, 1, k - 1) \o SubSeq(hs, k + 1, Len(hs))]

\* Promise.allSettled over the handlers' promises
allSettled(run) ==
  IF \A k \in 1..Len(run) : run[k].st # "pending" THEN "resolved" ELSE "awaiting"

\* emit(eventType, payload) up to its await.  handlers.map (line 34) walks
\* the type's array itself, not a copy, over the indices it had when map was
\* called: an index the array no longer has is skipped, and a handler that
\* throws ends the walk and rejects emit's promise before allSettled is
\* reached.  Each handler called runs to its first await.
emit(b, ty) ==
  LET n == Len(b.handlers[ty])
      F[k \in 0..n] ==
        IF k = 0 THEN [b |-> b, run |-> <<>>, threw |-> FALSE]
        ELSE LET p == F[k - 1] IN
             IF p.threw \/ k > Len(p.b.handlers[ty]) THEN p
             ELSE LET h == p.b.handlers[ty][k]
                      w == beforeFirstAwait(h) IN
                  IF w = "throws"
                  THEN [p EXCEPT !.run = Append(@, [h |-> h, st |-> "threw"]),
                                 !.threw = TRUE]
                  ELSE [b |-> IF w = "off" THEN off(p.b, ty, h) ELSE p.b,
                        run |-> Append(p.run, [h |-> h, st |-> "pending"]),
                        threw |-> FALSE]
      r == F[n] IN
  [r.b EXCEPT !.emits = Append(@, [type |-> ty, run |-> r.run,
                                   st |-> IF r.threw THEN "rejected"
                                          ELSE allSettled(r.run)])]

\* the promise of the k-th handler called by the e-th emit settles
handlerSettled(b, e, k, ok) ==
  LET run == [b.emits[e].run EXCEPT ![k].st = IF ok THEN "resolved" ELSE "rejected"] IN
  [b EXCEPT !.emits[e].run = run,
            !.emits[e].st = IF @ = "rejected" THEN @ ELSE allSettled(run)]

\* ------------------------------------- OpenAIProvider and its cost service
\* Money is in millionths of a dollar.  COST_STRATEGIES (part_001:265-308)
\* by environment; AIOrchestrator picks 'development' for logLevel 'debug'
\* and 'production' otherwise.
Environments == {"production", "development"}

StrategyConfig(env) ==
  IF env = "development"
  THEN [maxTokensPerRequest |-> 2000, enableCaching |-> TRUE, fileSizeKB |-> 50,
        contentLength |-> 5000, dailyBudget |-> 10000000, maxCostPerFile |-> 100000]
  ELSE [maxTokensPerRequest |-> 8000, enableCaching |-> TRUE, fileSizeKB |-> 200,
        contentLength |-> 20000, dailyBudget |-> 100000000, maxCostPerFile |-> 500000]

CacheTTL == 86400000
CacheCap == 1000
DayLength == 86400000

\* new Date().toDateString(), as a day number
DateOf(t) == t \div DayLength

\* new CostOptimizationService(strategy): cache is the Map in insertion order
CostServiceInit(env, t) ==
  [config |-> StrategyConfig(env), dailySpend |-> 0, lastResetDate |-> DateOf(t),
   cache |-> <<>>]

\* The contents handed to analyzeContent: their length, whether
\* isHighValueContent holds for them, whether they are a string at all
\* (extractText handing on something else is the corrupt input on which the
\* rule-based pass throws) and, if not, whether they are undefined or null
\* (nullish) or another value (a number, an object, an ArrayBuffer); and
\* hash, the 32-bit value simpleHash folds the content to.  "note" and
\* "memo" are two texts of one length that differ in their first two
\* characters only ("Aa..." and "BB...") and fold to the same value.
NoteLength == 1200

\* the largest number of remote calls of the given cost that leaves the
\* recorded spend below the daily budget
EarlierCalls(cfg, cost) == (cfg.dailyBudget - 1) \div cost

Contents ==
  { [name |-> "note",    len |-> NoteLength,  highValue |-> FALSE, isString |-> TRUE,
     nullish |-> FALSE, hash |-> "h1"],
    [name |-> "memo",    len |-> NoteLength,  highValue |-> FALSE, isString |-> TRUE,
     nullish |-> FALSE, hash |-> "h1"],
    [name |-> "dump",    len |-> 60000, highValue |-> FALSE, isString |-> TRUE,
     nullish |-> FALSE, hash |-> "h2"],
    [name |-> "corrupt", len |-> 0,     highValue |-> FALSE, isString |-> FALSE,
     nullish |-> TRUE, hash |-> "h3"],
    [name |-> "number",  len |-> 0,     highValue |-> FALSE, isString |-> FALSE,
     nullish |-> FALSE, hash |-> "h4"] }

Priorities == {"medium", "high"}

\* generateCacheKey(content, mimeType): `content_${simpleHash(content +
\* mimeType)}_${mimeType}`; simpleHash folds the characters from left to
\* right, so two contents that fold to one value give one key under every
\* mime type
generateCacheKey(c, mime) == <<c.hash, mime>>

cacheIndex(svc, key) ==
  IF \E k \in 1..Len(svc.cache) : svc.cache[k].key = key
  THEN CHOOSE k \in 1..Len(svc.cache) : svc.cache[k].key = key
  ELSE 0

\* getCachedResult: the cached result as an option set, empty for a miss or
\* for an entry of 24 hours or more
getCachedResult(svc, c, mime, t) ==
  LET k == cacheIndex(svc, generateCacheKey(c, mime)) IN
  IF ~svc.config.enableCaching \/ k = 0 THEN {}
  ELSE IF t - svc.cache[k].timestamp < CacheTTL THEN {svc.cache[k].result} ELSE {}

\* A faulty variant of cacheResult: a key written again moves to the end of
\* the Map (eviction by recency of writing).
cacheResult_recency(svc, c, mime, result, t) ==
  LET key == generateCacheKey(c, mime)
      e == [key |-> key, result |-> result, timestamp |-> t]
      set == Append(SelectSeq(svc.cache, LAMBDA x : x.key # key), e) IN
  IF ~svc.config.enableCaching THEN svc
  ELSE [svc EXCEPT !.cache = IF Len(set) > CacheCap THEN Tail(set) ELSE set]

\* cacheResult: Map.set keeps the position of an existing key; past the cap
\* the first key of the Map is deleted
cacheResult(svc, c, mime, result, t) ==
  LET key == generateCacheKey(c, mime)
      k == cacheIndex(svc, key)
      e == [key |-> key, result |-> result, timestamp |-> t]
      set == IF k = 0 THEN Append(svc.cache, e) ELSE [svc.cache EXCEPT ![k] = e] IN
  IF ~svc.config.enableCaching THEN svc
  ELSE [svc EXCEPT !.cache = IF Len(set) > CacheCap THEN Tail(set) ELSE set]

\* estimateOpenAICost: ceil(length / 3) input tokens at $0.03 per 1000 and
\* 300 output tokens at $0.06 per 1000
estimateOpenAICost(len) == 30 * ((len + 2) \div 3) + 18000

Min(a, b) == IF a < b THEN a ELSE b

resetDailySpendIfNeeded(svc, t) ==
  IF svc.lastResetDate # DateOf(t)
  THEN [svc EXCEPT !.dailySpend = 0, !.lastResetDate = DateOf(t)] ELSE svc

\* shouldUseAI(content, content.length, mimeType, priority): the decision
\* (the service's state after resetDailySpendIfNeeded is taken separately)
shouldUseAI(svc, c, mime, priority) ==
  LET cfg == svc.config
      cost == estimateOpenAICost(c.len)
      light == estimateOpenAICost(Min(c.len, cfg.maxTokensPerRequest * 3)) IN
  IF cfg.enableCaching /\ cacheIndex(svc, generateCacheKey(c, mime)) # 0
    THEN [useAI |-> FALSE, strategy |-> "cached", estimatedCost |-> 0]
  ELSE IF svc.dailySpend >= cfg.dailyBudget
    THEN [useAI |-> FALSE, strategy |-> "basic", estimatedCost |-> 0]
  ELSE IF cost > cfg.maxCostPerFile
    THEN [useAI |-> FALSE, strategy |-> "basic", estimatedCost |-> cost]
  ELSE IF c.len > cfg.fileSizeKB * 1024 /\ priority # "high"
    THEN [useAI |-> FALSE, strategy |-> "basic", estimatedCost |-> cost]
  ELSE IF c.len > cfg.contentLength /\ priority # "high"
    THEN [useAI |-> TRUE, strategy |-> "ai-light", estimatedCost |-> light]
  ELSE IF c.highValue \/ priority = "high"
    THEN [useAI |-> TRUE, strategy |-> "ai-full", estimatedCost |-> cost]
  ELSE [useAI |-> TRUE, strategy |-> "ai-light", estimatedCost |-> light]

NoDecision == [useAI |-> FALSE, strategy |-> "none", estimatedCost |-> 0]
NoResult ==
  [summary |-> "none", enriched |-> <<>>, topics |-> "none", usedAI |-> FALSE,
   fallback |-> FALSE]

\* performFullEnrichment(content, mimeType) run at time t: what it finds in
\* the content, and extractedMetadata.extractedAt, the time of the run
performFullEnrichment(c, mime, t) == <<"enrichment", c.name, mime, t>>

\* the result object of the try block (lines 61-85): the model's summary when
\* there is one, else generateFallbackSummary; entities and topics (primary
\* and secondary) always from the enrichment, which ran at time t
fullResult(c, mime, d, ai, t) ==
  [summary |-> IF ai THEN "model" ELSE "fallback",
   enriched |-> performFullEnrichment(c, mime, t), topics |-> "primary+secondary",
   usedAI |-> d.useAI, fallback |-> FALSE]

\* the result object of the catch block (lines 97-117): the enrichment run
\* again (at time t), its primary topics only
fallbackResult(c, mime, t) ==
  [summary |-> "fallback", enriched |-> performFullEnrichment(c, mime, t),
   topics |-> "primary", usedAI |-> FALSE, fallback |-> TRUE]

\* What the fetch inside callOpenAI can come to: an answer with a summary in
\* it; a 200 answer whose message is JSON text without a summary field (or
\* the JSON text `null`); or no usable answer (the fetch rejects, the status
\* is not ok, the body is not JSON or has no choices).
Responses == {"summary", "no_summary", "error"}

\* callOpenAI from the answer on (lines 156-171): whether the object it
\* resolves to has a summary.  Under 'ai-light' the message text itself is
\* the summary; otherwise the text is parsed and the parsed value returned.
hasSummary(strategy, resp) == strategy = "ai-light" \/ resp = "summary"

\* An analyzeContent call: its arguments, the decision taken, the await it
\* is at ("enrich": performFullEnrichment in the try block, "fetch": the
\* fetch inside callOpenAI, "catch": performFullEnrichment in the catch
\* block, "done"), the time its last enrichment ran, the state
\* of the fetch to the remote model ("none", "pending", "ok", "failed"), how
\* the call ended ("pending", "returned", "raised"), the result returned and
\* whether that result came out of the cache.  History: overBudget, whether the
\* recorded spend of the day had reached the budget when the fetch was made;
\* stale, whether the call found a cache entry of 24 hours or more for its
\* content; asNew, the decision shouldUseAI takes at that moment for content
\* that has no cache entry.
NewCall(c, mime, priority) ==
  [content |-> c, mime |-> mime, priority |-> priority, decision |-> NoDecision,
   pc |-> "done", enrichedAt |-> 0,
   remote |-> "none", out |-> "pending", result |-> NoResult, served |-> "none",
   overBudget |-> FALSE, stale |-> FALSE, asNew |-> NoDecision]

\* the call awaits performFullEnrichment, in the try block or in the catch
\* block
Enriching(call) == call.pc \in {"enrich", "catch"}

\* the recorded spend of the current day has reached the daily budget
budgetReached(svc, t) ==
  svc.dailySpend >= svc.config.dailyBudget /\ svc.lastResetDate = DateOf(t)

\* recordAIUsage(cost) called n times
recordAIUsage(svc, cost, n) == [svc EXCEPT !.dailySpend = @ + n * cost]

\* analyzeContent up to its first await that yields: `await
\* performFullEnrichment` in the try block (the awaited shouldUseAI has no
\* await of its own and has decided by then) or, when the try block has
\* thrown, the one in the catch block; or to its end, on a cache hit.  For
\* undefined or null `content.length` throws before shouldUseAI is called;
\* for any other non-string shouldUseAI is called, runs
\* resetDailySpendIfNeeded and throws at `content.substring`.
analyzeContent(svc, c, mime, priority, t) ==
  LET hit == getCachedResult(svc, c, mime, t)
      call == NewCall(c, mime, priority)
      svc1 == resetDailySpendIfNeeded(svc, t)
      d == shouldUseAI(svc1, c, mime, priority)
      k == cacheIndex(svc, generateCacheKey(c, mime))
      stale == k # 0 /\ t - svc.cache[k].timestamp >= CacheTTL
      asNew == shouldUseAI([svc1 EXCEPT !.cache = <<>>], c, mime, priority) IN
  IF hit # {}
    THEN [svc |-> svc,
          call |-> [call EXCEPT !.out = "returned", !.served = "cache",
                                !.result = CHOOSE x \in hit : TRUE]]
  ELSE IF ~c.isString
    THEN [svc |-> IF c.nullish THEN svc ELSE svc1,
          call |-> [call EXCEPT !.pc = "catch"]]
  ELSE [svc |-> svc1,
        call |-> [call EXCEPT !.pc = "enrich", !.decision = d,
                              !.stale = stale, !.asNew = asNew]]

\* analyzeContent resumed when the try block's performFullEnrichment has
\* settled: up to the fetch inside callOpenAI, or to its end
enrichmentDone(svc, call, t) ==
  LET d == call.decision
      r == fullResult(call.content, call.mime, d, FALSE, t) IN
  IF d.useAI /\ d.strategy # "cached"
    THEN [svc |-> svc,
          call |-> [call EXCEPT !.pc = "fetch", !.enrichedAt = t,
                                !.remote = "pending",
                                !.overBudget = budgetReached(svc, t)]]
  ELSE [svc |-> cacheResult(svc, call.content, call.mime, r, t),
        call |-> [call EXCEPT !.pc = "done", !.enrichedAt = t, !.out = "returned",
                              !.served = "computed", !.result = r]]

\* analyzeContent resumed when the catch block's performFullEnrichment has
\* settled (lines 95-117): the fallback result, or the enrichment's own
\* exception, which it throws for content that is not a string
fallbackEnrichmentDone(svc, call, t) ==
  IF call.content.isString
  THEN [svc |-> svc,
        call |-> [call EXCEPT !.pc = "done", !.enrichedAt = t, !.out = "returned",
                              !.served = "computed",
                              !.result = fallbackResult(call.content, call.mime, t)]]
  ELSE [svc |-> svc, call |-> [call EXCEPT !.pc = "done", !.out = "raised"]]

\* faulty variant: an analyzeContent without its catch block
callOpenAISettled_noCatch(svc, call, resp, t) ==
  LET r == fullResult(call.content, call.mime, call.decision,
                      hasSummary(call.decision.strategy, resp), call.enrichedAt) IN
  IF resp # "error"
  THEN [svc |-> cacheResult(recordAIUsage(svc, call.decision.estimatedCost, 1),
                            call.content, call.mime, r, t),
        call |-> [call EXCEPT !.pc = "done", !.remote = "ok", !.out = "returned",
                              !.served = "computed", !.result = r]]
  ELSE [svc |-> svc,
        call |-> [call EXCEPT !.pc = "done", !.remote = "failed", !.out = "raised"]]

\* analyzeContent resumed when callOpenAI settles: recordAIUsage, the result
\* (with generateFallbackSummary's summary when callOpenAI resolved to a
\* value without one), cacheResult; or, when callOpenAI rejected, the catch
\* block up to its await
callOpenAISettled(svc, call, resp, t) ==
  LET r == fullResult(call.content, call.mime, call.decision,
                      hasSummary(call.decision.strategy, resp), call.enrichedAt) IN
  IF resp # "error"
  THEN [svc |-> cacheResult(recordAIUsage(svc, call.decision.estimatedCost, 1),
                            call.content, call.mime, r, t),
        call |-> [call EXCEPT !.pc = "done", !.remote = "ok", !.out = "returned",
                              !.served = "computed", !.result = r]]
  ELSE [svc |-> svc, call |-> [call EXCEPT !.pc = "catch", !.remote = "failed"]]

\* The isolate: the ContentSkimmer objects built so far, one per request,
\* each with its provider's cost service; and every analyzeContent call
\* made, with the skimmer it was made on and, once it has ended, the number
\* of calls that had been started by then.
IsolateInit == [env |-> "production", skimmers |-> <<>>, calls |-> <<>>]

\* new ContentSkimmer(config, env): among the objects the constructor makes
\* is a new AIOrchestrator with a new OpenAIProvider, which makes a new
\* CostOptimizationService
newContentSkimmer(iso, t) ==
  [iso EXCEPT !.skimmers = Append(@, [cost |-> CostServiceInit(iso.env, t)])]

\* the cost service of skimmer k's provider takes a new state
setCost(iso, k, svc) == [iso EXCEPT !.skimmers[k].cost = svc]

\* ------------------------------------------------- processFile pipeline
\* Providers: "openai" is OpenAIProvider (cost-optimised version), "openai_basic"
\* the basic version kept in the same file; they differ in isSupported.
isSupported(prov, mime) ==
  CASE prov = "openai"       -> mime \in {"text/plain", "application/pdf"}
    [] prov = "openai_basic" -> mime \in {"text/plain"}
    [] OTHER                 -> FALSE

hasCompatibleProvider(provs, mime) ==
  \E k \in 1..Len(provs) : isSupported(provs[k], mime)

\* analyzeFile's loop: the first provider at index >= from that is not skipped
\* by `if (!provider.isSupported(mimeType)) continue`, 0 when the loop ends
nextProvider(provs, mime, from) ==
  IF \E k \in from..Len(provs) : isSupported(provs[k], mime)
  THEN CHOOSE k \in from..Len(provs) :
         /\ isSupported(provs[k], mime)
         /\ \A j \in from..(k - 1) : ~isSupported(provs[j], mime)
  ELSE 0

\* SearchFactory.createAllSearchEngines with both engines configured
Engines == <<"MeilisearchProvider", "VectorizeProvider">>

DataServices ==
  {"data-service-status", "data-service-webhook", "data-service-analysis",
   "data-service-metadata"}

\* the breaker each awaited call of the pipeline goes through ("none": a
\* plain fetch / provider call)
SiteService(site) ==
  CASE site \in {"status_analyzing", "status_analyzed", "status_failed"} -> "data-service-status"
    [] site \in {"cb_unsupported", "cb_completed", "cb_failed", "cb_failed_handler"}
         -> "data-service-webhook"
    [] site = "save_results" -> "data-service-analysis"
    [] site = "get_metadata" -> "data-service-metadata"
    [] OTHER -> "none"

Returned(out) == out \in {"returned_op", "returned_fallback"}

IdleInvocation ==
  [pc |-> "idle", pending |-> "none", mime |-> "text/plain", signed |-> FALSE,
   p |-> 0, err |-> "none", thrown |-> "none", log |-> <<>>, q |-> RetryQueueInit,
   calls |-> <<>>, fileId |-> 0, outs |-> <<>>, doc |-> {}]

\* the settled provider calls of analyzeFile, in order: provider index,
\* method, and whether it resolved
called(s, method, out) ==
  [s EXCEPT !.v.calls = Append(@, [k |-> s.v.p, m |-> method, ok |-> out = "returned_op"])]

\* s is the pair [bs |-> breakers, v |-> one invocation]
note(s, e) == [s EXCEPT !.v.log = Append(@, e)]

\* the synchronous start of the awaited call at `site`: a breaker-guarded
\* call runs shouldReject() and either has its outcome at once (refused: no
\* request is sent, the fallback's outcome or the breaker's error waits for
\* processFile's continuation) or leaves operation() in flight ("op").  The
\* invocation's history records a refused call with sent = FALSE.
enter(s, site, t) ==
  LET svc == SiteService(site) IN
  IF svc = "none"
  THEN [s EXCEPT !.v.pc = site, !.v.pending = "op"]
  ELSE LET r == shouldReject(s.bs[svc], t)
           out == executeRejected(ServiceFallback(svc)) IN
       IF r.reject
       THEN [s EXCEPT !.bs[svc] = r.st, !.v.pc = site, !.v.pending = out,
                      !.v.outs = Append(@, [site |-> site, out |-> out, sent |-> FALSE])]
       ELSE [s EXCEPT !.bs[svc] = r.st, !.v.pc = site, !.v.pending = "op"]

\* how the awaited call at the invocation's site settles when its operation
\* resolves (ok) or rejects: execute runs onSuccess() or onFailure() and
\* decides its own outcome in the same synchronous run (lines 51-63)
settleCall(s, ok, t) ==
  LET svc == SiteService(s.v.pc) IN
  IF svc = "none"
  THEN [st |-> s, out |-> IF ok THEN "returned_op" ELSE "threw_op_error"]
  ELSE IF ok
       THEN [st |-> [s EXCEPT !.bs[svc] = onSuccess(@)], out |-> "returned_op"]
  ELSE LET b == onFailure(s.bs[svc], t, BreakerConfig({}, {})) IN
       [st |-> [s EXCEPT !.bs[svc] = b],
        out |-> executeFailed(b, ServiceFallback(svc))]

\* the same, with the call recorded in the invocation's history (its site,
\* its outcome, a request was sent) and its outcome left for processFile's
\* continuation, which runs some microtasks later
settle(s, ok, t) ==
  LET r == settleCall(s, ok, t) IN
  [r.st EXCEPT !.v.pending = r.out,
               !.v.outs = Append(@, [site |-> s.v.pc, out |-> r.out, sent |-> TRUE])]

\* the error `sendProcessingCallback` rejects with, by outcome of execute
webhookError(out) ==
  IF out = "threw_fallback_error" THEN "WebhookCritical" ELSE "WebhookCallbackFailed"

\* what the provider's analyzeContent returned for the file
AIResult ==
  [summary |-> "summary", entities |-> <<"Ada", "ACME">>, topics |-> <<"contracts">>]

\* the characters of the strings handed to String.prototype.includes: the
\* mime types of events, the words looked for, and topics
chars(str) ==
  CASE str = "text/plain" -> <<"t", "e", "x", "t", "/", "p", "l", "a", "i",
         "n">>
    [] str = "text/html" -> <<"t", "e", "x", "t", "/", "h", "t", "m", "l">>
    [] str = "text/csv" -> <<"t", "e", "x", "t", "/", "c", "s", "v">>
    [] str = "text/markdown" -> <<"t", "e", "x", "t", "/", "m", "a", "r",
         "k", "d", "o", "w", "n">>
    [] str = "application/pdf" -> <<"a", "p", "p", "l", "i", "c", "a", "t",
         "i", "o", "n", "/", "p", "d", "f">>
    [] str = "application/x-pdf" -> <<"a", "p", "p", "l", "i", "c", "a", "t",
         "i", "o", "n", "/", "x", "-", "p", "d", "f">>
    [] str = "image/png" -> <<"i", "m", "a", "g", "e", "/", "p", "n", "g">>
    [] str = "image/jpeg" -> <<"i", "m", "a", "g", "e", "/", "j", "p", "e",
         "g">>
    [] str = "image/gif" -> <<"i", "m", "a", "g", "e", "/", "g", "i", "f">>
    [] str = "application/msword" -> <<"a", "p", "p", "l", "i", "c", "a",
         "t", "i", "o", "n", "/", "m", "s", "w", "o", "r", "d">>
    [] str = "application/vnd.openxmlformats-officedocument.wordprocessingml.document" ->
         <<"a", "p", "p", "l", "i", "c", "a", "t", "i", "o", "n", "/", "v",
         "n", "d", ".", "o", "p", "e", "n", "x", "m", "l", "f", "o", "r",
         "m", "a", "t", "s", "-", "o", "f", "f", "i", "c", "e", "d", "o",
         "c", "u", "m", "e", "n", "t", ".", "w", "o", "r", "d", "p", "r",
         "o", "c", "e", "s", "s", "i", "n", "g", "m", "l", ".", "d", "o",
         "c", "u", "m", "e", "n", "t">>
    [] str = "application/json" -> <<"a", "p", "p", "l", "i", "c", "a", "t",
         "i", "o", "n", "/", "j", "s", "o", "n">>
    [] str = "application/octet-stream" -> <<"a", "p", "p", "l", "i", "c",
         "a", "t", "i", "o", "n", "/", "o", "c", "t", "e", "t", "-", "s",
         "t", "r", "e", "a", "m">>
    [] str = "pdf" -> <<"p", "d", "f">>
    [] str = "image" -> <<"i", "m", "a", "g", "e">>
    [] str = "text" -> <<"t", "e", "x", "t">>
    [] str = "application/vnd.openxmlformats" -> <<"a", "p", "p", "l", "i",
         "c", "a", "t", "i", "o", "n", "/", "v", "n", "d", ".", "o", "p",
         "e", "n", "x", "m", "l", "f", "o", "r", "m", "a", "t", "s">>
    [] str = "business" -> <<"b", "u", "s", "i", "n", "e", "s", "s">>
    [] str = "financial" -> <<"f", "i", "n", "a", "n", "c", "i", "a", "l">>
    [] str = "analysis" -> <<"a", "n", "a", "l", "y", "s", "i", "s">>
    [] str = "contracts" -> <<"c", "o", "n", "t", "r", "a", "c", "t", "s">>
    [] str = "business strategy" -> <<"b", "u", "s", "i", "n", "e", "s", "s",
         " ", "s", "t", "r", "a", "t", "e", "g", "y">>
    [] str = "financial analysis" -> <<"f", "i", "n", "a", "n", "c", "i",
         "a", "l", " ", "a", "n", "a", "l", "y", "s", "i", "s">>

\* str.includes(word)
includes(str, word) ==
  LET c == chars(str)  w == chars(word) IN
  \E i \in 0..(Len(c) - Len(w)) : \A j \in 1..Len(w) : c[i + j] = w[j]

\* determineContentType(mimeType, aiResult) (lines 248-263): by the words
\* the mime type holds, in this order; for the other types by the topics
determineContentType(mimeType, aiResult) ==
  IF includes(mimeType, "pdf") THEN "document"
  ELSE IF includes(mimeType, "image") THEN "image"
  ELSE IF includes(mimeType, "text") THEN "text"
  ELSE IF \/ includes(mimeType, "application/vnd.openxmlformats")
          \/ includes(mimeType, "application/msword") THEN "document"
  ELSE IF /\ "topics" \in DOMAIN aiResult
          /\ \E k \in 1..Len(aiResult.topics) :
               \/ includes(aiResult.topics[k], "business")
               \/ includes(aiResult.topics[k], "financial")
               \/ includes(aiResult.topics[k], "analysis")
       THEN "business-document"
  ELSE "document"

\* the object processFile builds for the webhook and then emits as `result`
\* (lines 159-174): it carries no fileId, entities or topics field
analysisResultPayload(mimeType) ==
  [summary |-> AIResult.summary,
   contentType |-> determineContentType(mimeType, AIResult),
   extractedText |-> AIResult.summary,
   metadata |-> [entities |-> Len(AIResult.entities), topics |-> Len(AIResult.topics)]]

\* a property read, as the set holding the value: empty when the object has
\* no such field (undefined)
field(obj, name) == IF name \in DOMAIN obj THEN {obj[name]} ELSE {}

\* the SearchDocument updateSearchIndex builds from `result` (lines 288-299)
searchDoc(result) ==
  [id |-> field(result, "fileId"), summary |-> field(result, "summary"),
   entities |-> field(result, "entities"), topics |-> field(result, "topics")]

\* processFile's catch block (lines 220-234): `error` is bound, then the
\* 'failed' callback is sent inside its own try
catchBlock(s, e, t) ==
  enter(note(note([s EXCEPT !.v.err = e], "error_caught"), "failed_cb_catch"), "cb_failed", t)

\* getFileContent (lines 269-279)
getFileContent(s, t) ==
  IF s.v.signed THEN enter(note(s, "download_sent"), "download", t)
  ELSE enter(note(s, "signed_url_requested"), "get_url", t)

\* analyzeFile's loop from provider index `from` (AIOrchestrator lines 34-55)
analyzeFile(s, from, t) ==
  LET k == nextProvider(providers, s.v.mime, from) IN
  IF k = 0 THEN catchBlock(s, "AllProvidersFailed", t)
  ELSE enter(note([s EXCEPT !.v.p = k], "extract_text"), "extract", t)

\* eventBus.emit('analysis_completed', ...): the handler updateSearchIndex
\* runs to its first await (the dynamic import)
emitCompleted(s, t) == enter(note(s, "emit_completed"), "index_import", t)

\* processFile's normal end (lines 202-218)
finishOk(s) == [note(s, "returned") EXCEPT !.v.pc = "returned", !.v.pending = "none"]

\* updateSearchIndex lines 301-313: one addOperation per engine, in order
queueIndexOps(s, t) ==
  LET docId == field(analysisResultPayload(s.v.mime), "fileId")
      F[k \in 0..Len(Engines)] ==
        IF k = 0 THEN [s EXCEPT !.v.doc = {searchDoc(analysisResultPayload(s.v.mime))}]
        ELSE note([F[k - 1] EXCEPT !.v.q =
                     addOperation(@, <<"search_index", docId, Engines[k]>>,
                                  DefaultMaxRetries, t)],
                  "index_queued")
  IN F[Len(Engines)]

afterImport(s, t) == enter(s, "status_analyzing", t)

\* a processFile without the compatibility check
afterStatusAnalyzing_noCheck(s, out, t) == getFileContent(s, t)

\* lines 121-144: the status update's outcome is ignored, then the
\* compatibility check
afterStatusAnalyzing(s, out, t) ==
  IF hasCompatibleProvider(providers, s.v.mime) THEN getFileContent(s, t)
  ELSE enter(note(s, "failed_cb_unsupported"), "cb_unsupported", t)

\* lines 133-141: the callback's own rejection, or `throw new Error(error)`
afterUnsupportedCallback(s, out, t) ==
  catchBlock(s, IF out = "returned_op" THEN "UnsupportedFileType" ELSE webhookError(out), t)

afterGetUrl(s, out, t) ==
  IF out = "returned_op" THEN enter(note(s, "download_sent"), "download", t)
  ELSE catchBlock(s, "SignedUrlFailed", t)

afterDownload(s, out, t) ==
  IF out = "returned_op"
  THEN analyzeFile(note(note(s, "download_done"), "analyze_start"), 1, t)
  ELSE catchBlock(s, "DownloadFailed", t)

\* faulty variant: an analyzeFile that gives up at the first provider error
afterExtract_noFallback(s, out, t) ==
  IF out = "returned_op"
  THEN enter(note(called(s, "extractText", out), "analyze_content"), "analyze", t)
  ELSE catchBlock(called(s, "extractText", out), "AllProvidersFailed", t)

afterExtract(s, out, t) ==
  IF out = "returned_op"
  THEN enter(note(called(s, "extractText", out), "analyze_content"), "analyze", t)
  ELSE analyzeFile(called(s, "extractText", out), s.v.p + 1, t)

afterAnalyze(s, out, t) ==
  IF out = "returned_op"
  THEN enter(note(note(called(s, "analyzeContent", out), "analyze_done"),
                  "completed_cb_sent"), "cb_completed", t)
  ELSE analyzeFile(called(s, "analyzeContent", out), s.v.p + 1, t)

\* a processFile that only logs a failed 'completed' callback
afterCompletedCallback_swallow(s, out, t) ==
  enter(note(s, "save_sent"), "save_results", t)

\* a processFile that emits before the results are saved
afterCompletedCallback_emitFirst(s, out, t) ==
  IF out = "returned_op" THEN emitCompleted(note(s, "completed_cb_ok"), t)
  ELSE catchBlock(s, webhookError(out), t)

\* line 177, awaited outside any inner try
afterCompletedCallback(s, out, t) ==
  IF out = "returned_op"
  THEN enter(note(note(s, "completed_cb_ok"), "save_sent"), "save_results", t)
  ELSE catchBlock(s, webhookError(out), t)

\* faulty variant: the legacy save outside its try
afterSaveResults_fatal(s, out, t) ==
  IF Returned(out)
  THEN enter(note(note(s, "save_settled"), "status_analyzed_sent"), "status_analyzed", t)
  ELSE catchBlock(note(s, "save_settled"), "SaveFailed", t)

\* lines 180-197: the legacy try; a rejection skips the status update
afterSaveResults(s, out, t) ==
  IF Returned(out)
  THEN enter(note(note(s, "save_settled"), "status_analyzed_sent"), "status_analyzed", t)
  ELSE emitCompleted(note(s, "save_settled"), t)

\* faulty variant: an 'analyzed' status update outside the legacy try block
afterStatusAnalyzed_fatal(s, out, t) ==
  IF out = "returned_op"
  THEN emitCompleted(note(s, "status_analyzed_ok"), t)
  ELSE catchBlock(note(s, "status_analyzed_failed"), "StatusFailed", t)

afterStatusAnalyzed(s, out, t) ==
  emitCompleted(note(s, IF out = "returned_op" THEN "status_analyzed_ok"
                        ELSE "status_analyzed_failed"), t)

afterIndexImport(s, t) == enter(s, "get_metadata", t)

\* updateSearchIndex after getFileMetadata; its rejection is swallowed by
\* Promise.allSettled, then processFile ends normally
afterGetMetadata(s, out, t) ==
  IF Returned(out) THEN finishOk(queueIndexOps(s, t))
  ELSE finishOk(note(s, "index_handler_rejected"))

\* a catch block whose 'failed' callback is not wrapped in a try
afterFailedCallback_propagate(s, out, t) ==
  IF out = "returned_op"
  THEN enter(note(note(note(s, "failed_cb_catch_ok"), "emit_failed"),
                  "failed_cb_handler"), "cb_failed_handler", t)
  ELSE [note(s, "raised") EXCEPT
          !.v.pc = "raised", !.v.pending = "none", !.v.thrown = webhookError(out)]

\* lines 233-243: the callback's outcome is only logged; then
\* emit('analysis_failed') runs handleAnalysisFailure to its first await
afterFailedCallback(s, out, t) ==
  enter(note(note(note(s, IF out = "returned_op" THEN "failed_cb_catch_ok"
                          ELSE "failed_cb_catch_threw"),
                  "emit_failed"), "failed_cb_handler"), "cb_failed_handler", t)

\* handleAnalysisFailure lines 348-361
afterHandlerCallback(s, out, t) == enter(s, "status_failed", t)

\* faulty variant: a catch block that ends without throwing
afterStatusFailed_swallow(s, out, t) == finishOk(note(s, "failed_handlers_settled"))

\* handleAnalysisFailure ends, emit resolves, line 244: throw error
afterStatusFailed(s, out, t) ==
  [note(note(s, "failed_handlers_settled"), "raised") EXCEPT
     !.v.pc = "raised", !.v.pending = "none", !.v.thrown = s.v.err]

\* the continuation of processFile after the awaited call settled to `out`
resume(s, out, t) ==
  CASE s.v.pc = "import"            -> afterImport(s, t)
    [] s.v.pc = "status_analyzing"  -> afterStatusAnalyzing(s, out, t)
    [] s.v.pc = "cb_unsupported"    -> afterUnsupportedCallback(s, out, t)
    [] s.v.pc = "get_url"           -> afterGetUrl(s, out, t)
    [] s.v.pc = "download"          -> afterDownload(s, out, t)
    [] s.v.pc = "extract"           -> afterExtract(s, out, t)
    [] s.v.pc = "analyze"           -> afterAnalyze(s, out, t)
    [] s.v.pc = "cb_completed"      -> afterCompletedCallback(s, out, t)
    [] s.v.pc = "save_results"      -> afterSaveResults(s, out, t)
    [] s.v.pc = "status_analyzed"   -> afterStatusAnalyzed(s, out, t)
    [] s.v.pc = "index_import"      -> afterIndexImport(s, t)
    [] s.v.pc = "get_metadata"      -> afterGetMetadata(s, out, t)
    [] s.v.pc = "cb_failed"         -> afterFailedCallback(s, out, t)
    [] s.v.pc = "cb_failed_handler" -> afterHandlerCallback(s, out, t)
    [] s.v.pc = "status_failed"     -> afterStatusFailed(s, out, t)
    [] OTHER                        -> s

Invocations == 1..MaxInvocations

\* ------------------------------------------- SpecCB: one breaker, many callers
\* The breaker under study is either one of DataService's (created by
\* getBreaker(name) with the default config) or a bare breaker with a small
\* configured threshold whose callers may pass a fallback or not.
CBServices == {"data-service-metadata", "data-service-webhook", "bare"}
BareThresholds == {0, 1, 2}
TickSteps == {30000, 60000}
Slots == 1..MaxConcurrent
NoCall == 0

CallerFallbacks(svc) ==
  IF svc = "bare" THEN {"none", "value"} ELSE {ServiceFallback(svc)}

IdleCall == [pc |-> "idle", fb |-> "none", late |-> FALSE]

InitCB ==
  /\ now = 0
  /\ cb = BreakerInit
  /\ \E svc \in CBServices :
       \E th \in (IF svc = "bare" THEN {{n} : n \in BareThresholds} ELSE {{}}) :
         cbCfg = [service |-> svc] @@ BreakerConfig(th, {})
  /\ cbCalls = [c \in Slots |-> IdleCall]
  /\ breakers = [svc \in DataServices |-> BreakerInit]
  /\ providers = <<"openai">>
  /\ pf = [i \in Invocations |-> IdleInvocation]
  /\ rq = RetryQueueInit
  /\ eb = EventBusInit
  /\ isolate = IsolateInit
  /\ cbHist = [started |-> 0, consec |-> 0, trial |-> NoCall,
               last |-> [kind |-> "none", slot |-> NoCall, from |-> "CLOSED",
                        fb |-> "none", out |-> "none", trial |-> FALSE]]

\* execute() up to its first await: shouldReject(), then either the rejected
\* branch settles at once or operation() is invoked and left in flight.
\* History: trial is the call that took the breaker from OPEN to HALF_OPEN and
\* is still in flight; a call is late when it began while a trial was in flight;
\* last.trial tells whether the call of the last step was that trial call.
CBBegin(c, fb) ==
  /\ cbCalls[c].pc = "idle"
  /\ cbHist.started < MaxCalls
  /\ fb \in CallerFallbacks(cbCfg.service)
  /\ LET r == shouldReject(cb, now) IN
       /\ cb' = r.st
       /\ cbCalls' = [cbCalls EXCEPT ![c] =
            IF r.reject THEN IdleCall
            ELSE [pc |-> "inflight", fb |-> fb, late |-> cbHist.trial # NoCall]]
       /\ cbHist' = [cbHist EXCEPT
            !.started = @ + 1,
            !.trial = IF cb.state = "OPEN" /\ ~r.reject /\ @ = NoCall THEN c ELSE @,
            !.last = [kind |-> "begin", slot |-> c, from |-> cb.state, fb |-> fb,
                      out |-> IF r.reject THEN executeRejected(fb) ELSE "pending",
                      trial |-> cb.state = "OPEN" /\ ~r.reject]]
  /\ UNCHANGED <<now, cbCfg, rq, pfVars, ebVars, isoVars>>

\* operation() resolved: onSuccess(), execute returns its result
CBOpSucceeds(c) ==
  /\ cbCalls[c].pc = "inflight"
  /\ cb' = onSuccess(cb)
  /\ cbCalls' = [cbCalls EXCEPT ![c] = IdleCall]
  /\ cbHist' = [cbHist EXCEPT
       !.consec = 0,
       !.trial = IF @ = c THEN NoCall ELSE @,
       !.last = [kind |-> "success", slot |-> c, from |-> cb.state,
                 fb |-> cbCalls[c].fb, out |-> "returned_op",
                 trial |-> cbHist.trial = c]]
  /\ UNCHANGED <<now, cbCfg, rq, pfVars, ebVars, isoVars>>

\* operation() rejected: onFailure(), then fallback or rethrow
CBOpFails(c) ==
  /\ cbCalls[c].pc = "inflight"
  /\ cb' = onFailure(cb, now, cbCfg)
  /\ cbCalls' = [cbCalls EXCEPT ![c] = IdleCall]
  /\ cbHist' = [cbHist EXCEPT
       !.consec = @ + 1,
       !.trial = IF @ = c THEN NoCall ELSE @,
       !.last = [kind |-> "failure", slot |-> c, from |-> cb.state,
                 fb |-> cbCalls[c].fb, out |-> executeFailed(cb', cbCalls[c].fb),
                 trial |-> cbHist.trial = c]]
  /\ UNCHANGED <<now, cbCfg, rq, pfVars, ebVars, isoVars>>

CBTick(dt) ==
  /\ now + dt <= MaxTime
  /\ now' = now + dt
  /\ cbHist' = [cbHist EXCEPT !.last = [kind |-> "tick", slot |-> NoCall, from |-> cb.state,
                                     fb |-> "none", out |-> "none", trial |-> FALSE]]
  /\ UNCHANGED <<cb, cbCfg, cbCalls, rq, pfVars, ebVars, isoVars>>

\* reset() (lines 114-121; also what resetAll() does to every breaker): the
\* state record is the initial one again, whatever calls are in flight.
\* History: the consecutive failures and the trial call are those of the
\* breaker since it was constructed or last reset.
CBReset ==
  /\ cb # BreakerInit
  /\ cb' = BreakerInit
  /\ cbHist' = [cbHist EXCEPT
       !.consec = 0,
       !.trial = NoCall,
       !.last = [kind |-> "reset", slot |-> NoCall, from |-> cb.state,
                 fb |-> "none", out |-> "none", trial |-> FALSE]]
  /\ UNCHANGED <<now, cbCfg, cbCalls, rq, pfVars, ebVars, isoVars>>

NextCB ==
  \/ \E c \in Slots : \E fb \in FallbackKinds : CBBegin(c, fb)
  \/ \E c \in Slots : CBOpSucceeds(c)
  \/ \E c \in Slots : CBOpFails(c)
  \/ \E dt \in TickSteps : CBTick(dt)
  \/ CBReset

SpecCB == InitCB /\ [][NextCB]_vars

\* --------------------------------------- SpecRQ: one retry queue, any callers
RQIds == {"a", "b"}
RQMaxRetries == {1, 2, DefaultMaxRetries}
RQTickSteps == {5000}

\* History kept beside the queue under study: for each registration the time
\* of its last invocation and of its last failure (-1: none yet).
Never == -1

\* the history after a step of the queue from q0 to q1 at time t
observe(q0, q1, t) ==
  LET old(f, r) == IF r <= Len(q0.objs) THEN f[r] ELSE Never
      inv0(r) == IF r <= Len(q0.objs) THEN q0.hist[r].inv ELSE 0
      ret0(r) == IF r <= Len(q0.objs) THEN q0.objs[r].currentRetry ELSE 0 IN
  [q1 EXCEPT
     !.invokedAt = [r \in 1..Len(q1.objs) |->
                      IF q1.hist[r].inv > inv0(r) THEN t ELSE old(q0.invokedAt, r)],
     !.failedAt = [r \in 1..Len(q1.objs) |->
                     IF q1.objs[r].currentRetry > ret0(r) THEN t ELSE old(q0.failedAt, r)]]

InitRQ ==
  /\ now = 0
  /\ breakers = [svc \in DataServices |-> BreakerInit]
  /\ providers = <<"openai">>
  /\ pf = [i \in Invocations |-> IdleInvocation]
  /\ rq = RetryQueueInit @@ [invokedAt |-> <<>>, failedAt |-> <<>>]
  /\ cb = BreakerInit
  /\ cbCfg = [service |-> "bare"] @@ BreakerConfig({}, {})
  /\ cbCalls = [c \in Slots |-> IdleCall]
  /\ eb = EventBusInit
  /\ isolate = IsolateInit
  /\ cbHist = [started |-> 0, consec |-> 0, trial |-> NoCall,
               last |-> [kind |-> "none", slot |-> NoCall, from |-> "CLOSED",
                         fb |-> "none", out |-> "none", trial |-> FALSE]]

RQAdd(id, m) ==
  /\ Len(rq.objs) < MaxRegs
  /\ rq' = observe(rq, addOperation(rq, id, m, now), now)
  /\ UNCHANGED <<now, cbVars, pfVars, ebVars, isoVars>>

\* the awaited operation resolves (ok) or rejects
RQSettle(ok) ==
  /\ rq.isProcessing /\ rq.ready # <<>>
  /\ rq' = observe(rq, processQueueResume(rq, ok, now), now)
  /\ UNCHANGED <<now, cbVars, pfVars, ebVars, isoVars>>

RQTimer ==
  /\ rq.timers # <<>>
  /\ Head(rq.timers) <= now
  /\ rq' = observe(rq, timerFired(rq, now), now)
  /\ UNCHANGED <<now, cbVars, pfVars, ebVars, isoVars>>

RQTick(dt) ==
  /\ now + dt <= RQMaxTime
  /\ now' = now + dt
  /\ UNCHANGED <<rq, cbVars, pfVars, ebVars, isoVars>>

NextRQ ==
  \/ \E id \in RQIds : \E m \in RQMaxRetries : RQAdd(id, m)
  \/ \E ok \in BOOLEAN : RQSettle(ok)
  \/ RQTimer
  \/ \E dt \in RQTickSteps : RQTick(dt)

SpecRQ == InitRQ /\ [][NextRQ]_vars

\* ------------------------------------- SpecEB: one event bus, any callers
InitEB ==
  /\ now = 0
  /\ breakers = [svc \in DataServices |-> BreakerInit]
  /\ providers = <<"openai">>
  /\ pf = [i \in Invocations |-> IdleInvocation]
  /\ rq = RetryQueueInit
  /\ cb = BreakerInit
  /\ cbCfg = [service |-> "bare"] @@ BreakerConfig({}, {})
  /\ cbCalls = [c \in Slots |-> IdleCall]
  /\ eb = EventBusInit
  /\ isolate = IsolateInit
  /\ cbHist = [started |-> 0, consec |-> 0, trial |-> NoCall,
               last |-> [kind |-> "none", slot |-> NoCall, from |-> "CLOSED",
                         fb |-> "none", out |-> "none", trial |-> FALSE]]

EBOn(ty, h) ==
  /\ Len(eb.handlers[ty]) < MaxHandlers
  /\ eb' = on(eb, ty, h)
  /\ UNCHANGED <<now, rq, cbVars, pfVars, isoVars>>

EBOff(ty, h) ==
  /\ eb' = off(eb, ty, h)
  /\ UNCHANGED <<now, rq, cbVars, pfVars, isoVars>>

\* emit is called, also while earlier emits await their handlers
EBEmit(ty) ==
  /\ Len(eb.emits) < MaxEmits
  /\ eb' = emit(eb, ty)
  /\ UNCHANGED <<now, rq, cbVars, pfVars, isoVars>>

EBHandlerSettles(e, k, ok) ==
  /\ e \in 1..Len(eb.emits)
  /\ k \in 1..Len(eb.emits[e].run)
  /\ eb.emits[e].run[k].st = "pending"
  /\ eb' = handlerSettled(eb, e, k, ok)
  /\ UNCHANGED <<now, rq, cbVars, pfVars, isoVars>>

NextEB ==
  \/ \E ty \in EventTypes : \E h \in Handlers : EBOn(ty, h)
  \/ \E ty \in EventTypes : \E h \in Handlers : EBOff(ty, h)
  \/ \E ty \in EventTypes : EBEmit(ty)
  \/ \E e \in 1..MaxEmits : \E k \in 1..MaxHandlers : \E ok \in BOOLEAN :
       EBHandlerSettles(e, k, ok)

SpecEB == InitEB /\ [][NextEB]_vars

\* ------------------ SpecEO: one event bus, with the last off call on record
\* lastOff is history: when the last call on the bus was an off, whether
\* indexOf found the handler and, if it did, the arguments of the call.
NoOff == [ty |-> "none", h |-> "none"]
AbsentOff == [ty |-> "none", h |-> "absent"]

InitEO ==
  /\ now = 0
  /\ breakers = [svc \in DataServices |-> BreakerInit]
  /\ providers = <<"openai">>
  /\ pf = [i \in Invocations |-> IdleInvocation]
  /\ rq = RetryQueueInit
  /\ cb = BreakerInit
  /\ cbCfg = [service |-> "bare"] @@ BreakerConfig({}, {})
  /\ cbCalls = [c \in Slots |-> IdleCall]
  /\ eb = EventBusInit @@ [lastOff |-> NoOff]
  /\ isolate = IsolateInit
  /\ cbHist = [started |-> 0, consec |-> 0, trial |-> NoCall,
               last |-> [kind |-> "none", slot |-> NoCall, from |-> "CLOSED",
                         fb |-> "none", out |-> "none", trial |-> FALSE]]

EOOn(ty, h) ==
  /\ Len(eb.handlers[ty]) < MaxHandlers
  /\ eb' = [on(eb, ty, h) EXCEPT !.lastOff = NoOff]
  /\ UNCHANGED <<now, rq, cbVars, pfVars, isoVars>>

EOOff(ty, h) ==
  /\ eb' = [off(eb, ty, h) EXCEPT
             !.lastOff = IF indexOf(eb.handlers[ty], h) # 0
                         THEN [ty |-> ty, h |-> h] ELSE AbsentOff]
  /\ UNCHANGED <<now, rq, cbVars, pfVars, isoVars>>

\* emit is called, also while earlier emits await their handlers
EOEmit(ty) ==
  /\ Len(eb.emits) < MaxEmits
  /\ eb' = [emit(eb, ty) EXCEPT !.lastOff = NoOff]
  /\ UNCHANGED <<now, rq, cbVars, pfVars, isoVars>>

\* a handler's promise is fulfilled (rejections are followed in SpecEB)
EOHandlerSettles(e, k) ==
  /\ e \in 1..Len(eb.emits)
  /\ k \in 1..Len(eb.emits[e].run)
  /\ eb.emits[e].run[k].st = "pending"
  /\ eb' = [handlerSettled(eb, e, k, TRUE) EXCEPT !.lastOff = NoOff]
  /\ UNCHANGED <<now, rq, cbVars, pfVars, isoVars>>

NextEO ==
  \/ \E ty \in EventTypes : \E h \in Handlers : EOOn(ty, h)
  \/ \E ty \in EventTypes : \E h \in Handlers : EOOff(ty, h)
  \/ \E ty \in EventTypes : EOEmit(ty)
  \/ \E e \in 1..MaxEmits : \E k \in 1..MaxHandlers : EOHandlerSettles(e, k)

SpecEO == InitEO /\ [][NextEO]_vars

\* ------------------------- SpecPF: one processFile invocation in an isolate
\* Each request builds its own ContentSkimmer (index.ts:26), so every
\* invocation has its own EventBus and RetryQueue; the breakers are shared
\* by all requests of the isolate.  One request is followed, with any event
\* and any provider list; the isolate has served other requests before it,
\* whose failed calls have left their count on the breakers.  Time passes at
\* any moment, also while a call is awaited.
MimeTypes == {"text/plain", "application/pdf"}
\* no API key, or the one OpenAIProvider of either build of OpenAIProvider.ts
ProviderLists == {<<>>, <<"openai">>, <<"openai_basic">>}
PFTickSteps == {PFMaxTime}
AlwaysResolves == {"import", "index_import"}
Quiescent == {"idle", "returned", "raised"}

\* the invocation followed in SpecPF
Followed == CHOOSE i \in Invocations : \A j \in Invocations : i <= j

\* a breaker of getBreaker(name) after k calls in a row have failed at time t
afterFailures(k, t) ==
  LET F[n \in 0..k] ==
        IF n = 0 THEN BreakerInit ELSE onFailure(F[n - 1], t, BreakerConfig({}, {})) IN
  F[k]

\* the failed calls earlier requests may have left on a breaker: none, one
\* fewer than open it, or as many as open it
PriorFailures == {0, DefaultFailureThreshold - 1, DefaultFailureThreshold}

InitPF ==
  /\ now = 0
  /\ \E wear \in [DataServices -> PriorFailures] :
       breakers = [svc \in DataServices |-> afterFailures(wear[svc], 0)]
  /\ providers \in ProviderLists
  /\ pf = [i \in Invocations |-> IdleInvocation]
  /\ rq = RetryQueueInit
  /\ cb = BreakerInit
  /\ cbCfg = [service |-> "bare"] @@ BreakerConfig({}, {})
  /\ cbCalls = [c \in Slots |-> IdleCall]
  /\ eb = EventBusInit
  /\ isolate = IsolateInit
  /\ cbHist = [started |-> 0, consec |-> 0, trial |-> NoCall,
               last |-> [kind |-> "none", slot |-> NoCall, from |-> "CLOSED",
                         fb |-> "none", out |-> "none", trial |-> FALSE]]

\* processFile(event) up to its first await
PFStart(i, mime, signed) ==
  /\ pf[i].pc = "idle"
  /\ pf' = [pf EXCEPT ![i] = [IdleInvocation EXCEPT
               !.pc = "import", !.pending = "op", !.mime = mime, !.signed = signed,
               !.fileId = i,
               !.log = <<"started">>]]
  /\ UNCHANGED <<now, breakers, providers, rq, cbVars, ebVars, isoVars>>

\* the operation of the call the invocation awaits settles: execute counts
\* the success or failure on the shared breaker and settles in its turn
PFSettle(i, ok) ==
  /\ pf[i].pc \notin Quiescent
  /\ pf[i].pending = "op"
  /\ pf[i].pc \in AlwaysResolves => ok
  /\ LET n == settle([bs |-> breakers, v |-> pf[i]], ok, now) IN
       /\ breakers' = n.bs
       /\ pf' = [pf EXCEPT ![i] = n.v]
  /\ UNCHANGED <<now, providers, rq, cbVars, ebVars, isoVars>>

\* processFile's continuation: the awaited call has settled (or was refused
\* by its breaker), and processFile runs on to its next await, whose
\* shouldReject reads the shared breaker as it is by then, or to its end.
\* The continuations of other invocations and the settling of their calls
\* can run between a call's settling and this step.
PFResume(i) ==
  /\ pf[i].pc \notin Quiescent
  /\ pf[i].pending # "op"
  /\ LET n == resume([bs |-> breakers, v |-> pf[i]], pf[i].pending, now) IN
       /\ breakers' = n.bs
       /\ pf' = [pf EXCEPT ![i] = n.v]
  /\ UNCHANGED <<now, providers, rq, cbVars, ebVars, isoVars>>

\* the index operation awaited by the invocation's retry queue settles
PFIndexSettle(i, ok) ==
  /\ pf[i].q.isProcessing /\ pf[i].q.ready # <<>>
  /\ pf' = [pf EXCEPT ![i].q = processQueueResume(@, ok, now)]
  /\ UNCHANGED <<now, breakers, providers, rq, cbVars, ebVars, isoVars>>

PFQueueTimer(i) ==
  /\ pf[i].q.timers # <<>>
  /\ Head(pf[i].q.timers) <= now
  /\ pf' = [pf EXCEPT ![i].q = timerFired(@, now)]
  /\ UNCHANGED <<now, breakers, providers, rq, cbVars, ebVars, isoVars>>

\* time passes
PFTick(dt) ==
  /\ now + dt <= PFMaxTime
  /\ now' = now + dt
  /\ UNCHANGED <<breakers, providers, pf, rq, cbVars, ebVars, isoVars>>

NextPF ==
  \/ \E mime \in MimeTypes : \E signed \in BOOLEAN : PFStart(Followed, mime, signed)
  \/ \E ok \in BOOLEAN : PFSettle(Followed, ok)
  \/ PFResume(Followed)
  \/ \E ok \in BOOLEAN : PFIndexSettle(Followed, ok)
  \/ PFQueueTimer(Followed)
  \/ \E dt \in PFTickSteps : PFTick(dt)

SpecPF == InitPF /\ [][NextPF]_vars

\* ------------- SpecPW: processFile as the Worker runs it, under waitUntil
\* index.ts hands the promise of processFile to ctx.waitUntil and answers
\* 202 at once (lines 73-80): the runtime keeps the request's work going,
\* its calls settling and its timers firing, for as long as that promise is
\* pending.  What is still scheduled when it has settled (the retry queue's
\* setTimeout of RetryQueue.ts:64) may run or not.  The isolate is new and
\* has the deployed provider.
WaitUntilPending == pf[Followed].pc \notin Quiescent

InitPW ==
  /\ now = 0
  /\ breakers = [svc \in DataServices |-> BreakerInit]
  /\ providers = <<"openai">>
  /\ pf = [i \in Invocations |-> IdleInvocation]
  /\ rq = RetryQueueInit
  /\ cb = BreakerInit
  /\ cbCfg = [service |-> "bare"] @@ BreakerConfig({}, {})
  /\ cbCalls = [c \in Slots |-> IdleCall]
  /\ eb = EventBusInit
  /\ isolate = IsolateInit
  /\ cbHist = [started |-> 0, consec |-> 0, trial |-> NoCall,
               last |-> [kind |-> "none", slot |-> NoCall, from |-> "CLOSED",
                         fb |-> "none", out |-> "none", trial |-> FALSE]]

\* time passes up to the retry queue's next timer
PWTick ==
  /\ pf[Followed].q.timers # <<>>
  /\ now < Head(pf[Followed].q.timers)
  /\ now' = Head(pf[Followed].q.timers)
  /\ UNCHANGED <<breakers, providers, pf, rq, cbVars, ebVars, isoVars>>

NextPW ==
  \/ NextPF
  \/ PWTick

SpecPW ==
  /\ InitPW
  /\ [][NextPW]_vars
  /\ WF_vars(WaitUntilPending /\ \E ok \in BOOLEAN : PFSettle(Followed, ok))
  /\ WF_vars(WaitUntilPending /\ PFResume(Followed))
  /\ WF_vars(WaitUntilPending /\ \E ok \in BOOLEAN : PFIndexSettle(Followed, ok))
  /\ WF_vars(WaitUntilPending /\ PFQueueTimer(Followed))
  /\ WF_vars(WaitUntilPending /\ PWTick)

\* ----------------------- SpecPC: processFile invocations running at once
\* Requests for text files with a signed URL arrive at any moment, also
\* while the processFile of another request awaits a call; the isolate has
\* one provider, and earlier requests may have left failed 'completed' or
\* 'failed' callbacks on the webhook breaker.
InitPC ==
  /\ now = 0
  /\ \E k \in {0, DefaultFailureThreshold - 1} :
       breakers = [svc \in DataServices |->
                     IF svc = "data-service-webhook" THEN afterFailures(k, 0)
                     ELSE BreakerInit]
  /\ providers = <<"openai">>
  /\ pf = [i \in Invocations |-> IdleInvocation]
  /\ rq = RetryQueueInit
  /\ cb = BreakerInit
  /\ cbCfg = [service |-> "bare"] @@ BreakerConfig({}, {})
  /\ cbCalls = [c \in Slots |-> IdleCall]
  /\ eb = EventBusInit
  /\ isolate = IsolateInit
  /\ cbHist = [started |-> 0, consec |-> 0, trial |-> NoCall,
               last |-> [kind |-> "none", slot |-> NoCall, from |-> "CLOSED",
                         fb |-> "none", out |-> "none", trial |-> FALSE]]

NextPC ==
  \/ \E i \in Invocations : PFStart(i, "text/plain", TRUE)
  \/ \E i \in Invocations : \E ok \in BOOLEAN : PFSettle(i, ok)
  \/ \E i \in Invocations : PFResume(i)
  \/ \E i \in Invocations : \E ok \in BOOLEAN : PFIndexSettle(i, ok)
  \/ \E i \in Invocations : PFQueueTimer(i)
  \/ \E dt \in PFTickSteps : PFTick(dt)

SpecPC == InitPC /\ [][NextPC]_vars

\* --------------------------- SpecAO: analyzeFile over any provider list
\* The orchestrator with any list of providers (the AIProvider interface
\* admits several), called once; it is followed until analyzeFile has
\* returned to processFile (the 'completed' callback is being sent) or has
\* thrown into its catch block.
ProviderKinds == {"openai", "openai_basic"}
AOProviderLists ==
  UNION {[1..n -> ProviderKinds] : n \in 0..MaxProviders}

InitAO ==
  /\ now = 0
  /\ breakers = [svc \in DataServices |-> BreakerInit]
  /\ providers \in AOProviderLists
  /\ pf = [i \in Invocations |-> IdleInvocation]
  /\ rq = RetryQueueInit
  /\ cb = BreakerInit
  /\ cbCfg = [service |-> "bare"] @@ BreakerConfig({}, {})
  /\ cbCalls = [c \in Slots |-> IdleCall]
  /\ eb = EventBusInit
  /\ isolate = IsolateInit
  /\ cbHist = [started |-> 0, consec |-> 0, trial |-> NoCall,
               last |-> [kind |-> "none", slot |-> NoCall, from |-> "CLOSED",
                         fb |-> "none", out |-> "none", trial |-> FALSE]]

\* analyzeFile(buffer, mimeType) is called
AOCall(mime) ==
  /\ pf[1].pc = "idle"
  /\ LET s0 == [bs |-> breakers,
                v |-> [IdleInvocation EXCEPT !.mime = mime, !.log = <<"analyze_start">>]]
         n == analyzeFile(s0, 1, now) IN
       /\ breakers' = n.bs
       /\ pf' = [pf EXCEPT ![1] = n.v]
  /\ UNCHANGED <<now, providers, rq, cbVars, ebVars, isoVars>>

\* the awaited extractText or analyzeContent settles
AOSettle(ok) ==
  /\ pf[1].pc \in {"extract", "analyze"}
  /\ PFSettle(1, ok)

\* analyzeFile's loop goes on after the await
AOResume ==
  /\ pf[1].pc \in {"extract", "analyze"}
  /\ PFResume(1)

NextAO ==
  \/ \E mime \in MimeTypes : AOCall(mime)
  \/ \E ok \in BOOLEAN : AOSettle(ok)
  \/ AOResume

SpecAO == InitAO /\ [][NextAO]_vars

\* ------------------ SpecOP: the requests of one isolate and their providers
\* index.ts builds a ContentSkimmer for each request; the request's
\* processFile then calls analyzeContent on that skimmer's provider.
OPMimes == {"text/plain"}

InitOP ==
  /\ now = 0
  /\ breakers = [svc \in DataServices |-> BreakerInit]
  /\ providers = <<"openai">>
  /\ pf = [i \in Invocations |-> IdleInvocation]
  /\ rq = RetryQueueInit
  /\ cb = BreakerInit
  /\ cbCfg = [service |-> "bare"] @@ BreakerConfig({}, {})
  /\ cbCalls = [c \in Slots |-> IdleCall]
  /\ eb = EventBusInit
  /\ \E env \in Environments : isolate = [IsolateInit EXCEPT !.env = env]
  /\ cbHist = [started |-> 0, consec |-> 0, trial |-> NoCall,
               last |-> [kind |-> "none", slot |-> NoCall, from |-> "CLOSED",
                         fb |-> "none", out |-> "none", trial |-> FALSE]]

\* fetch(request, env, ctx), line 26
OPFetch ==
  /\ Len(isolate.skimmers) < MaxRequests
  /\ isolate' = newContentSkimmer(isolate, now)
  /\ UNCHANGED <<now, rq, cbVars, pfVars, ebVars>>

\* the request served by skimmer k reaches provider.analyzeContent
OPAnalyze(k, c, mime, priority) ==
  /\ k \in 1..Len(isolate.skimmers)
  /\ Len(isolate.calls) < MaxAnalyses
  /\ LET r == analyzeContent(isolate.skimmers[k].cost, c, mime, priority, now)
         n == Len(isolate.calls) + 1 IN
       isolate' = [setCost(isolate, k, r.svc) EXCEPT
                !.calls = Append(@, r.call @@ [skimmer |-> k,
                                   doneAt |-> IF r.call.out = "pending" THEN 0 ELSE n])]
  /\ UNCHANGED <<now, rq, cbVars, pfVars, ebVars>>

\* call i's await of performFullEnrichment is over, in the try block or in
\* the catch block
OPEnriched(i) ==
  /\ i \in 1..Len(isolate.calls)
  /\ Enriching(isolate.calls[i])
  /\ LET k == isolate.calls[i].skimmer
         r == IF isolate.calls[i].pc = "enrich"
              THEN enrichmentDone(isolate.skimmers[k].cost, isolate.calls[i], now)
              ELSE fallbackEnrichmentDone(isolate.skimmers[k].cost, isolate.calls[i], now) IN
       isolate' = [setCost(isolate, k, r.svc) EXCEPT
                !.calls[i] = [r.call EXCEPT
                                !.doneAt = IF r.call.out = "pending" THEN 0
                                           ELSE Len(isolate.calls)]]
  /\ UNCHANGED <<now, rq, cbVars, pfVars, ebVars>>

\* the fetch of call i to the remote model settles
OPRemoteSettles(i, resp) ==
  /\ i \in 1..Len(isolate.calls)
  /\ isolate.calls[i].pc = "fetch"
  /\ LET k == isolate.calls[i].skimmer
         r == callOpenAISettled(isolate.skimmers[k].cost, isolate.calls[i], resp, now) IN
       isolate' = [setCost(isolate, k, r.svc) EXCEPT
                !.calls[i] = [r.call EXCEPT
                                !.doneAt = IF r.call.out = "pending" THEN 0
                                           ELSE Len(isolate.calls)]]
  /\ UNCHANGED <<now, rq, cbVars, pfVars, ebVars>>

NextOP ==
  \/ OPFetch
  \/ \E k \in 1..MaxRequests : \E c \in Contents : \E mime \in OPMimes :
       \E priority \in Priorities : OPAnalyze(k, c, mime, priority)
  \/ \E i \in 1..MaxAnalyses : OPEnriched(i)
  \/ \E i \in 1..MaxAnalyses : \E resp \in Responses : OPRemoteSettles(i, resp)

SpecOP == InitOP /\ [][NextOP]_vars

\* ------------- SpecOB: one provider over the days, its budget and its cache
\* The provider has served a number of calls today before the ones followed
\* here, each on new note-sized content and each with a successful remote
\* call (their cache entries, under other keys, are left out): none, or as
\* many as leave the recorded spend just below the daily budget.
InitOB ==
  /\ now = 0
  /\ breakers = [svc \in DataServices |-> BreakerInit]
  /\ providers = <<"openai">>
  /\ pf = [i \in Invocations |-> IdleInvocation]
  /\ rq = RetryQueueInit
  /\ cb = BreakerInit
  /\ cbCfg = [service |-> "bare"] @@ BreakerConfig({}, {})
  /\ cbCalls = [c \in Slots |-> IdleCall]
  /\ eb = EventBusInit
  /\ \E env \in Environments :
       LET iso == newContentSkimmer([IsolateInit EXCEPT !.env = env], 0)
           svc == iso.skimmers[1].cost
           cost == estimateOpenAICost(NoteLength) IN
       \E n \in {0, EarlierCalls(svc.config, cost)} :
         isolate = setCost(iso, 1, recordAIUsage(svc, cost, n))
  /\ cbHist = [started |-> 0, consec |-> 0, trial |-> NoCall,
               last |-> [kind |-> "none", slot |-> NoCall, from |-> "CLOSED",
                         fb |-> "none", out |-> "none", trial |-> FALSE]]

\* a day passes
OPTick ==
  /\ now + DayLength <= OPMaxTime
  /\ now' = now + DayLength
  /\ UNCHANGED <<isolate, rq, cbVars, pfVars, ebVars>>

NextOB ==
  \/ \E c \in Contents : \E mime \in OPMimes : \E priority \in Priorities :
       OPAnalyze(1, c, mime, priority)
  \/ \E i \in 1..MaxAnalyses : OPEnriched(i)
  \/ \E i \in 1..MaxAnalyses : \E resp \in Responses : OPRemoteSettles(i, resp)
  \/ OPTick

SpecOB == InitOB /\ [][NextOB]_vars

\* ------------------------ SpecCC: one cost service and its result cache
\* cacheResult and getCachedResult called on one service, for a few texts
\* followed one by one and, once, for a run of other texts that fills the
\* Map to one entry below its cap.  History: ops counts the calls followed,
\* last is the call just made (for a read, whether it returned a result),
\* touched the keys that were read or written again while in the Map.
CCContents == {c \in Contents : c.isString}
OtherContent(n) ==
  [name |-> ToString(n), len |-> NoteLength, highValue |-> FALSE, isString |-> TRUE,
   nullish |-> FALSE, hash |-> ToString(n)]
CCCache == isolate.skimmers[1].cost.cache
KeysOf(cache) == [i \in 1..Len(cache) |-> cache[i].key]
InCache(svc, key) == cacheIndex(svc, key) # 0

InitCC ==
  /\ now = 0
  /\ breakers = [svc \in DataServices |-> BreakerInit]
  /\ providers = <<"openai">>
  /\ pf = [i \in Invocations |-> IdleInvocation]
  /\ rq = RetryQueueInit
  /\ cb = BreakerInit
  /\ cbCfg = [service |-> "bare"] @@ BreakerConfig({}, {})
  /\ cbCalls = [c \in Slots |-> IdleCall]
  /\ eb = EventBusInit
  /\ isolate = newContentSkimmer(IsolateInit, 0) @@
                 [ops |-> 0, filled |-> FALSE, touched |-> {},
                  last |-> [op |-> "none", key |-> <<>>, found |-> FALSE]]
  /\ cbHist = [started |-> 0, consec |-> 0, trial |-> NoCall,
               last |-> [kind |-> "none", slot |-> NoCall, from |-> "CLOSED",
                         fb |-> "none", out |-> "none", trial |-> FALSE]]

\* cacheResult(content, mimeType, result)
CCWrite(c, mime) ==
  /\ isolate.ops < MaxCacheOps
  /\ LET svc == isolate.skimmers[1].cost
         key == generateCacheKey(c, mime) IN
       isolate' = [setCost(isolate, 1, cacheResult(svc, c, mime, fallbackResult(c, mime, now), now))
                     EXCEPT !.ops = @ + 1,
                            !.touched = IF InCache(svc, key) THEN @ \cup {key} ELSE @,
                            !.last = [op |-> "write", key |-> key, found |-> InCache(svc, key)]]
  /\ UNCHANGED <<now, rq, cbVars, pfVars, ebVars>>

\* getCachedResult(content, mimeType)
CCRead(c, mime) ==
  /\ isolate.ops < MaxCacheOps
  /\ LET svc == isolate.skimmers[1].cost
         key == generateCacheKey(c, mime) IN
       isolate' = [isolate EXCEPT
                     !.ops = @ + 1,
                     !.touched = IF InCache(svc, key) THEN @ \cup {key} ELSE @,
                     !.last = [op |-> "read", key |-> key,
                               found |-> getCachedResult(svc, c, mime, now) # {}]]
  /\ UNCHANGED <<now, rq, cbVars, pfVars, ebVars>>

\* cacheResult called for new texts, one after the other, until the Map is
\* one entry below its cap: each call is a Map.set of a new key, which adds
\* the entry at the end, and none takes the size past the cap
cacheResults(svc, mime, t) ==
  LET room == CacheCap - 1 - Len(svc.cache)
      entry(n) == [key |-> generateCacheKey(OtherContent(n), mime),
                   result |-> fallbackResult(OtherContent(n), mime, t), timestamp |-> t] IN
  IF ~svc.config.enableCaching \/ room <= 0 THEN svc
  ELSE [svc EXCEPT !.cache = @ \o [n \in 1..room |-> entry(n)]]

CCFill ==
  /\ ~isolate.filled
  /\ isolate' = [setCost(isolate, 1, cacheResults(isolate.skimmers[1].cost, "text/plain", now))
                   EXCEPT !.filled = TRUE,
                          !.last = [op |-> "fill", key |-> <<>>, found |-> FALSE]]
  /\ UNCHANGED <<now, rq, cbVars, pfVars, ebVars>>

NextCC ==
  \/ \E c \in CCContents : \E mime \in MimeTypes : CCWrite(c, mime)
  \/ \E c \in CCContents : \E mime \in MimeTypes : CCRead(c, mime)
  \/ CCFill

SpecCC == InitCC /\ [][NextCC]_vars

\* ------------------------------ SpecHC: the isolate's HealthChecker
\* healthChecker is a module-level object of the isolate.  checks is its Map
\* in insertion order; a check function is given by how it behaves when
\* called: it throws at once, never settles, or settles after delay ms by
\* resolving with a status or by rejecting.
HCTimeout == 5000
LateDelay == 7500
CheckNames == 1..MaxChecks
CheckFunctions ==
  { [kind |-> k, delay |-> 0] : k \in {"pass", "warn", "fail", "reject"} } \cup
  { [kind |-> "pass", delay |-> HCTimeout], [kind |-> "pass", delay |-> LateDelay],
    [kind |-> "throws", delay |-> 0], [kind |-> "hangs", delay |-> 0] }
NoCheck == [kind |-> "none", delay |-> 0]
NoCheckResult == [status |-> "none", duration |-> 0, check |-> NoCheck]

\* pc: "idle" before runChecks is called, "waiting" at the await of the
\* race of check i (called at time start, cur the function called), "done"
\* once runChecks has returned.  History: in each result, check is the
\* function that was called for it; atReturn is the size of the Map when
\* runChecks returned.
HealthCheckerInit ==
  [checks |-> <<>>, pc |-> "idle", i |-> 0, start |-> 0, cur |-> NoCheck,
   results |-> [n \in CheckNames |-> NoCheckResult], status |-> "healthy",
   atReturn |-> 0]

health == isolate.health

checkIndex(h, name) ==
  IF \E k \in 1..Len(h.checks) : h.checks[k].name = name
  THEN CHOOSE k \in 1..Len(h.checks) : h.checks[k].name = name
  ELSE 0

\* addCheck(name, check): Map.set
addCheck(h, name, fn) ==
  LET k == checkIndex(h, name)
      e == [name |-> name, fn |-> fn] IN
  [h EXCEPT !.checks = IF k = 0 THEN Append(@, e) ELSE [@ EXCEPT ![k] = e]]

\* A faulty variant of overallAfter: a warning sets 'degraded' whatever the
\* status was.
overallAfter_warnWins(overall, status) ==
  IF status = "fail" THEN "unhealthy"
  ELSE IF status = "warn" THEN "degraded"
  ELSE overall

\* lines 152-156 and 163: the overall status after a result
overallAfter(overall, status) ==
  IF status = "fail" THEN "unhealthy"
  ELSE IF status = "warn" /\ overall = "healthy" THEN "degraded"
  ELSE overall

\* results[name] = {..., duration} and the update of overallStatus, for the
\* check being awaited or called
recordCheck(h, fn, status, duration) ==
  [h EXCEPT !.results[h.checks[h.i].name] =
              [status |-> status, duration |-> duration, check |-> fn],
            !.status = overallAfter(@, status)]

\* the for loop from check i on, up to its next await or to the return: a
\* check function that throws when called is caught at once (lines 157-164)
\* and the loop goes on
RECURSIVE loopFrom(_, _)
loopFrom(h, t) ==
  IF h.i > Len(h.checks)
  THEN [h EXCEPT !.pc = "done", !.cur = NoCheck, !.atReturn = Len(h.checks)]
  ELSE LET fn == h.checks[h.i].fn IN
       IF fn.kind = "throws"
       THEN loopFrom([recordCheck(h, fn, "fail", 0) EXCEPT !.i = @ + 1], t)
       ELSE [h EXCEPT !.pc = "waiting", !.start = t, !.cur = fn]

\* the awaited check settles now
settlesNow(h, t) ==
  /\ h.pc = "waiting"
  /\ h.cur.kind \in {"pass", "warn", "fail", "reject"}
  /\ t = h.start + h.cur.delay

InitHC ==
  /\ now = 0
  /\ breakers = [svc \in DataServices |-> BreakerInit]
  /\ providers = <<"openai">>
  /\ pf = [i \in Invocations |-> IdleInvocation]
  /\ rq = RetryQueueInit
  /\ cb = BreakerInit
  /\ cbCfg = [service |-> "bare"] @@ BreakerConfig({}, {})
  /\ cbCalls = [c \in Slots |-> IdleCall]
  /\ eb = EventBusInit
  /\ isolate = IsolateInit @@ [health |-> HealthCheckerInit]
  /\ cbHist = [started |-> 0, consec |-> 0, trial |-> NoCall,
               last |-> [kind |-> "none", slot |-> NoCall, from |-> "CLOSED",
                         fb |-> "none", out |-> "none", trial |-> FALSE]]

\* healthChecker.addCheck(name, check), at any moment: the loop of a running
\* runChecks iterates the live Map, so it reaches a name added meanwhile
\* and calls the function a name holds when the loop gets to it
HCAddCheck(name, fn) ==
  /\ isolate' = [isolate EXCEPT !.health = addCheck(@, name, fn)]
  /\ UNCHANGED <<now, rq, cbVars, pfVars, ebVars>>

\* healthChecker.runChecks() is called; one call is followed
HCRunChecks ==
  /\ health.pc = "idle"
  /\ isolate' = [isolate EXCEPT !.health = loopFrom([@ EXCEPT !.i = 1], now)]
  /\ UNCHANGED <<now, rq, cbVars, pfVars, ebVars>>

\* the awaited check settles before the race is decided: the race takes its
\* result (lines 147-156) or its rejection (lines 157-164)
HCCheckSettles ==
  /\ settlesNow(health, now)
  /\ health.cur.delay <= HCTimeout
  /\ LET h == health
         status == IF h.cur.kind = "reject" THEN "fail" ELSE h.cur.kind IN
       isolate' = [isolate EXCEPT !.health =
                     loopFrom([recordCheck(h, h.cur, status, now - h.start)
                                 EXCEPT !.i = @ + 1], now)]
  /\ UNCHANGED <<now, rq, cbVars, pfVars, ebVars>>

\* the 5000 ms timer of the race rejects first (lines 142-144, 157-164)
HCTimeoutFires ==
  /\ health.pc = "waiting"
  /\ now = health.start + HCTimeout
  /\ LET h == health IN
       isolate' = [isolate EXCEPT !.health =
                     loopFrom([recordCheck(h, h.cur, "fail", now - h.start)
                                 EXCEPT !.i = @ + 1], now)]
  /\ UNCHANGED <<now, rq, cbVars, pfVars, ebVars>>

\* time passes up to the next timer of the awaited race
HCTick ==
  /\ health.pc = "waiting"
  /\ now < health.start + HCTimeout
  /\ ~settlesNow(health, now)
  /\ now' = health.start + HCTimeout
  /\ UNCHANGED <<isolate, rq, cbVars, pfVars, ebVars>>

HCProgress == HCCheckSettles \/ HCTimeoutFires \/ HCTick

NextHC ==
  \/ \E name \in CheckNames : \E fn \in CheckFunctions : HCAddCheck(name, fn)
  \/ HCRunChecks
  \/ HCCheckSettles
  \/ HCTimeoutFires
  \/ HCTick

\* the event loop keeps running: timers fire and settled promises are
\* handed to their awaits
SpecHC == InitHC /\ [][NextHC]_vars /\ WF_vars(HCProgress)

\* ---------------------------------------------------- claims on the breaker
BeginBeforeRecovery ==
  /\ cbHist.last.kind = "begin"
  /\ cbHist.consec >= cbCfg.failureThreshold
  /\ now < cb.lastFailureTime + cbCfg.recoveryTimeout

\* C6: for a threshold N >= 1, right after the N-th consecutive failed
\* operation (counted since the breaker was constructed or last reset) the
\* breaker is OPEN; every execute call begun after N consecutive failures and
\* before recoveryTimeout has elapsed since the last failure settles without
\* invoking its operation, to the fallback's result when a fallback is given;
\* on the metadata breaker (threshold 5) the caller then receives the
\* placeholder metadata (filename "unknown-file", fallback TRUE).
C6_OpenAfterThreshold ==
  cbCfg.failureThreshold >= 1 =>
    /\ (cbHist.last.kind = "failure" /\ cbHist.consec >= cbCfg.failureThreshold)
          => cb.state = "OPEN"
    /\ BeginBeforeRecovery =>
          /\ cbHist.last.out # "pending"
          /\ cbCalls[cbHist.last.slot].pc = "idle"
          /\ cbHist.last.fb # "none" => cbHist.last.out = fallbackOutcome(cbHist.last.fb)
          /\ cbCfg.service = "data-service-metadata" =>
               /\ cbCfg.failureThreshold = 5
               /\ getFileMetadataValue(cbHist.last.out, "f1").filename = "unknown-file"
               /\ getFileMetadataValue(cbHist.last.out, "f1").fallback = TRUE

C6_Witness ==
  /\ BeginBeforeRecovery
  /\ cbCfg.service = "data-service-metadata"
  /\ cbHist.consec = 5
  /\ cbHist.last.out = "returned_fallback"

\* C7 (as claimed): reset() aside, the breaker's state changes only along CLOSED->OPEN on a
\* failure that brings the count to the threshold, OPEN->HALF_OPEN at a call
\* begun once now >= nextAttemptTime, HALF_OPEN->CLOSED on a success and
\* HALF_OPEN->OPEN on a failure (stated for thresholds N >= 1).
C7_OnlyDocumentedTransitions ==
  (/\ cbCfg.failureThreshold >= 1
   /\ cbHist.last.kind # "reset"
   /\ cbHist.last.from # cb.state) =>
    \/ /\ cbHist.last.from = "CLOSED" /\ cb.state = "OPEN"
       /\ cbHist.last.kind = "failure" /\ cb.failures >= cbCfg.failureThreshold
    \/ /\ cbHist.last.from = "OPEN" /\ cb.state = "HALF_OPEN"
       /\ cbHist.last.kind = "begin" /\ now >= cb.nextAttemptTime
    \/ /\ cbHist.last.from = "HALF_OPEN" /\ cb.state = "CLOSED"
       /\ cbHist.last.kind = "success"
    \/ /\ cbHist.last.from = "HALF_OPEN" /\ cb.state = "OPEN"
       /\ cbHist.last.kind = "failure"

\* C8 (as claimed): while the trial call that took the breaker out of OPEN is
\* in flight, no other execute call has its operation invoked (stated for
\* thresholds N >= 1).
C8_SingleTrialCall ==
  cbCfg.failureThreshold >= 1 =>
    \A c \in Slots : cbCalls[c].pc = "inflight" => ~cbCalls[c].late

\* C9 (as claimed): a failed operation of a call that was given a fallback
\* always settles to the fallback's result.
C9_FallbackOnEveryFailure ==
  (cbHist.last.kind = "failure" /\ cbHist.last.fb # "none")
     => cbHist.last.out = fallbackOutcome(cbHist.last.fb)

\* C9 (amended): a failed operation of a call that was given a fallback settles
\* to the fallback's result exactly when the failure count, that failure
\* included, has reached the threshold; otherwise the operation's error is raised.
C9_FallbackOnlyAtThreshold ==
  (cbHist.last.kind = "failure" /\ cbHist.last.fb # "none")
     => cbHist.last.out = (IF cb.failures >= cbCfg.failureThreshold
                           THEN fallbackOutcome(cbHist.last.fb)
                           ELSE "threw_op_error")

C9_Witness ==
  /\ cbHist.last.kind = "failure"
  /\ cbHist.last.fb = "value"
  /\ cbCfg.failureThreshold = 5
  /\ cb.failures = 5
  /\ cbHist.last.out = "returned_fallback"

\* C23 (as claimed): when the trial call (the call that took the breaker from
\* OPEN to HALF_OPEN) succeeds, the breaker is CLOSED with failure count 0;
\* when it fails, the breaker is OPEN with nextAttemptTime = the time of that
\* failure + recoveryTimeout.
C23_TrialCallDecides ==
  /\ (cbHist.last.kind = "success" /\ cbHist.last.trial) =>
        (cb.state = "CLOSED" /\ cb.failures = 0)
  /\ (cbHist.last.kind = "failure" /\ cbHist.last.trial) =>
        (cb.state = "OPEN" /\ cb.nextAttemptTime = now + cbCfg.recoveryTimeout)

\* the step is an execute call made while the breaker is OPEN and
\* nextAttemptTime has not come
RefusedStep ==
  /\ cb.state = "OPEN" /\ now < cb.nextAttemptTime
  /\ cbHist'.started = cbHist.started + 1

\* C24: an execute call made while the breaker is OPEN and now <
\* nextAttemptTime does not invoke its operation; it settles at once, to the
\* fallback's result when a fallback is given and to the circuit-open error
\* otherwise; and the breaker's state record is left as it was.
C24_Step ==
  RefusedStep =>
    /\ cbHist'.last.kind = "begin"
    /\ cbCalls' = cbCalls
    /\ cbHist'.last.out = (IF cbHist'.last.fb = "none" THEN "threw_circuit_open"
                           ELSE fallbackOutcome(cbHist'.last.fb))
    /\ cb' = cb

C24_OpenRefusesUnchanged == [][C24_Step]_vars

C24_Witness ==
  /\ cbHist.last.kind = "begin" /\ cbHist.last.from = "OPEN"
  /\ cbHist.last.out = "threw_circuit_open"
  /\ cb.state = "OPEN" /\ now > 0 /\ now < cb.nextAttemptTime
  /\ cb.failures = cbCfg.failureThreshold

\* C25: a call made in CLOSED has its operation invoked; the failure count
\* is the number of operations that failed since the last one that succeeded
\* (in completion order, counted since the breaker was constructed or last
\* reset); so the breaker is out of CLOSED only when the
\* threshold's number of operations failed in a row.
C25_CountSinceLastSuccess ==
  /\ (cbHist.last.kind = "begin" /\ cbHist.last.from = "CLOSED") =>
        (cbHist.last.out = "pending" /\ cbCalls[cbHist.last.slot].pc = "inflight")
  /\ cbHist.last.kind = "success" => cb.failures = 0
  /\ cb.failures = cbHist.consec
  /\ cb.state # "CLOSED" => cbHist.consec >= cbCfg.failureThreshold

C25_Witness ==
  /\ cb.state = "CLOSED"
  /\ cbCfg.failureThreshold = 2
  /\ cbHist.started >= 5
  /\ cbHist.last.kind = "failure"
  /\ cb.failures = 1
  /\ \A c \in Slots : cbCalls[c].pc = "idle"

\* ------------------------------------------------ claims on the retry queue
Regs == 1..Len(rq.objs)
InQueue(r) == \E p \in 1..Len(rq.operations) : rq.operations[p] = r
InFlight(r) == rq.isProcessing /\ rq.ready # <<>> /\ Head(rq.ready) = r

\* C10: a registration with maxRetries = M is invoked at most M times; once
\* it has succeeded it is no longer queued; once it has failed M times it is
\* no longer queued and not invoked again; and after a failure that leaves it
\* below M failures it is still queued (unless the same id was registered
\* again in the meantime, which replaces it).
C10_BoundedRetries ==
  \A r \in Regs :
    LET op == rq.objs[r]  h == rq.hist[r] IN
      /\ h.inv <= op.maxRetries
      /\ h.inv = op.currentRetry + (IF h.ok THEN 1 ELSE 0) + (IF InFlight(r) THEN 1 ELSE 0)
      /\ h.ok => ~InQueue(r)
      /\ op.currentRetry >= op.maxRetries => (~InQueue(r) /\ ~InFlight(r))
      /\ (op.currentRetry >= 1 /\ op.currentRetry < op.maxRetries /\ ~h.ok /\ ~h.replaced)
            => InQueue(r)

C10_Witness ==
  \E r \in Regs :
    /\ rq.objs[r].maxRetries = 3
    /\ rq.objs[r].currentRetry = 2
    /\ rq.hist[r].ok
    /\ rq.hist[r].inv = 3
    /\ ~InQueue(r)

\* C11 (as claimed): every registration has had its first invocation started
\* by the addOperation call that made it, also when a pass was running.
C11_StartedOnRegistration ==
  \A r \in Regs : rq.hist[r].inv >= 1

\* C12: at most one processing pass is active at any time, the pass flag
\* telling whether one is; and when no pass is active while operations are
\* queued, the last pass has scheduled a further pass PassDelay after its end.
C12_OnePassAtATime ==
  /\ rq.active \in {0, 1}
  /\ rq.isProcessing <=> rq.active = 1
  /\ (~rq.isProcessing /\ rq.operations # <<>>) =>
        /\ rq.timers # <<>>
        /\ rq.timers[Len(rq.timers)] = rq.lastEnd + PassDelay

C12_Witness ==
  /\ ~rq.isProcessing
  /\ rq.operations # <<>>
  /\ Len(rq.objs) = 2
  /\ rq.hist[2].inv = 0
  /\ rq.timers # <<>>
  /\ rq.lastEnd > 0

\* a registration is still due to be invoked: it is in the Map or in the rest
\* of the running pass' readyOperations
Pending(r) == InQueue(r) \/ \E k \in 1..Len(rq.ready) : rq.ready[k] = r

\* C13 (as claimed): a registration leaves the queue only by succeeding or by
\* exhausting maxRetries, so that one that is gone for good has been executed
\* successfully or has failed maxRetries times.
C13_LeavesBySuccessOrExhaustion ==
  \A r \in Regs :
    ~Pending(r) => (rq.hist[r].ok \/ rq.objs[r].currentRetry >= rq.objs[r].maxRetries)

\* C26 (as claimed): an invocation of a registration that has failed k times
\* (k >= 1) is started no sooner than 2^k x 1000 ms after its k-th failure.
C26_BackoffFromFailure ==
  \A r \in Regs :
    (InFlight(r) /\ rq.objs[r].currentRetry >= 1) =>
      rq.invokedAt[r] >= rq.failedAt[r] + Pow2(rq.objs[r].currentRetry) * BackoffBase

\* ------------------------------------------------ claims on the event bus
\* the step is a call of emit; its record is the last one
EmitStep == Len(eb'.emits) = Len(eb.emits) + 1
Emitted == eb'.emits[Len(eb'.emits)]
EmitRuns == 1..Len(eb.emits)

\* the emit step has called every handler that was registered for the type
InvokesEveryHandler ==
  LET hs == eb.handlers[Emitted.type] IN
  /\ Len(Emitted.run) = Len(hs)
  /\ \A k \in 1..Len(hs) : Emitted.run[k].h = hs[k]

\* C14 (as claimed): an emit for a type with several handlers invokes every
\* one of them, whatever the others do; its promise is never rejected, and
\* it is resolved once all of them have settled although some rejected.
C14_HandlersIsolated ==
  /\ [][(EmitStep /\ Len(eb.handlers[Emitted.type]) >= 2) => InvokesEveryHandler]_vars
  /\ [](\A e \in EmitRuns :
          /\ eb.emits[e].st # "rejected"
          /\ eb.emits[e].st = "resolved" <=>
               \A k \in 1..Len(eb.emits[e].run) : eb.emits[e].run[k].st # "pending")

\* what an emit step does according to the claim: one call per entry of the
\* type's handler array, in array order, all of them started and none
\* settled when emit reaches its await; no registration is changed
EmitStartsAll ==
  EmitStep =>
    LET hs == eb.handlers[Emitted.type] IN
    /\ Emitted.type \in EventTypes
    /\ Emitted.run = [k \in 1..Len(hs) |-> [h |-> hs[k], st |-> "pending"]]
    /\ Emitted.st = (IF hs = <<>> THEN "resolved" ELSE "awaiting")
    /\ eb'.handlers = eb.handlers

\* emit's promise is resolved exactly when every started handler has settled
ResolvesAfterAll ==
  \A e \in EmitRuns :
    /\ eb.emits[e].st = "resolved" =>
         \A k \in 1..Len(eb.emits[e].run) : eb.emits[e].run[k].st # "pending"
    /\ eb.emits[e].st = "awaiting" =>
         \E k \in 1..Len(eb.emits[e].run) : eb.emits[e].run[k].st = "pending"

\* C27 (as claimed): emit starts one call for every registration of the
\* emitted type, in registration order, and none for a registration of
\* another type; all of them are started before any has settled; and emit
\* resolves only when every one of them has settled.
C27_EmitStartsAllConcurrently ==
  /\ []ResolvesAfterAll
  /\ [][EmitStartsAll]_vars

Occurs(hs, h) == \E k \in 1..Len(hs) : hs[k] = h
Occurrences(hs, h) == Cardinality({k \in 1..Len(hs) : hs[k] = h})
Without(hs, k) == [j \in 1..(Len(hs) - 1) |-> IF j < k THEN hs[j] ELSE hs[j + 1]]

\* the step is an off(ty, h) that found h registered for ty
OffFound(ty, h) == eb'.lastOff = [ty |-> ty, h |-> h]

\* C28 (as claimed): after off(type, h) the handler h is no longer registered
\* for the type, so a later emit does not call it.
C28_OffStepClaimed ==
  \A ty \in EventTypes : \A h \in Handlers :
    OffFound(ty, h) => ~Occurs(eb'.handlers[ty], h)

C28_OffRemovesHandler == [][C28_OffStepClaimed]_vars

\* what an off step does
OffRemovesFirst ==
  \A ty \in EventTypes : \A h \in Handlers :
    LET hs == eb.handlers[ty] IN
    /\ OffFound(ty, h) =>
         /\ \E k \in 1..Len(hs) :
              /\ hs[k] = h /\ \A j \in 1..(k - 1) : hs[j] # h
              /\ eb'.handlers[ty] = Without(hs, k)
         /\ Occurrences(eb'.handlers[ty], h) = Occurrences(hs, h) - 1
         /\ \A other \in EventTypes \ {ty} : eb'.handlers[other] = eb.handlers[other]
         /\ eb'.emits = eb.emits
    /\ eb'.lastOff = AbsentOff => (eb'.handlers = eb.handlers /\ eb'.emits = eb.emits)

\* the calls of run are calls of entries of hs, taken in the order of hs
CallsInOrder(run, hs) ==
  \E f \in [1..Len(run) -> 1..Len(hs)] :
    /\ \A k \in 1..Len(run) : run[k].h = hs[f[k]]
    /\ \A j, k \in 1..Len(run) : j < k => f[j] < f[k]

\* what an emit step does with the registrations it finds: it calls entries
\* of the emitted type's array only, each at most once and in array order,
\* and leaves the arrays of the other types alone
EmitCallsRegistrations ==
  EmitStep =>
    LET hs == eb.handlers[Emitted.type] IN
    /\ CallsInOrder(Emitted.run, hs)
    /\ \A other \in EventTypes \ {Emitted.type} :
         eb'.handlers[other] = eb.handlers[other]

\* C28 (amended): off(type, h) removes the first registration of h for the
\* type and nothing else: the other registrations of the type keep their
\* order, the other types and the running emits are untouched, an h that is
\* not registered changes nothing, and an h registered n times is still
\* registered n - 1 times; a later emit calls registrations that are left
\* only, each at most once and in their order.
C28_OffRemovesFirstRegistration ==
  /\ [][OffRemovesFirst]_vars
  /\ [][EmitCallsRegistrations]_vars

C28_Witness ==
  /\ eb.lastOff = [ty |-> "analysis_completed", h |-> "h1"]
  /\ eb.handlers["analysis_completed"] = <<"h1">>
  /\ eb.handlers["analysis_failed"] = <<"h2", "h1">>

\* ------------------------------------------------- claims on analyzeFile
Supports(k) == isSupported(providers[k], pf[1].mime)
ProviderFailed(k) == \E c \in 1..Len(pf[1].calls) : pf[1].calls[c].k = k /\ ~pf[1].calls[c].ok
ProviderSucceeded(k) ==
  /\ \E c \in 1..Len(pf[1].calls) :
        pf[1].calls[c] = [k |-> k, m |-> "extractText", ok |-> TRUE]
  /\ \E c \in 1..Len(pf[1].calls) :
        pf[1].calls[c] = [k |-> k, m |-> "analyzeContent", ok |-> TRUE]
AOReturned == pf[1].pc = "cb_completed"
AORaised == pf[1].pc = "cb_failed"

\* C15: analyzeFile asks only providers that support the mimeType, in
\* configuration order, the next one only after the previous one raised; it
\* returns the result of the first that extracts and analyses successfully,
\* without asking any later provider and without an error from the earlier
\* ones; it raises the all-providers-failed error exactly when every
\* provider is unsupported or raised.
C15_FirstWorkingProvider ==
  LET v == pf[1]  cs == v.calls IN
  /\ \A c \in 1..Len(cs) : cs[c].k \in 1..Len(providers) /\ Supports(cs[c].k)
  /\ v.pc \in {"extract", "analyze"} => (v.p \in 1..Len(providers) /\ Supports(v.p))
  /\ \A c \in 1..(Len(cs) - 1) :
        \/ cs[c].ok /\ cs[c].m = "extractText" /\ cs[c + 1].m = "analyzeContent"
             /\ cs[c + 1].k = cs[c].k
        \/ ~cs[c].ok /\ cs[c + 1].m = "extractText" /\ cs[c + 1].k > cs[c].k
             /\ \A j \in (cs[c].k + 1)..(cs[c + 1].k - 1) : ~Supports(j)
  /\ cs # <<>> => (cs[1].m = "extractText" /\ \A j \in 1..(cs[1].k - 1) : ~Supports(j))
  /\ AOReturned =>
        /\ ProviderSucceeded(v.p)
        /\ cs[Len(cs)] = [k |-> v.p, m |-> "analyzeContent", ok |-> TRUE]
        /\ \A j \in 1..(v.p - 1) : Supports(j) => (ProviderFailed(j) /\ ~ProviderSucceeded(j))
        /\ v.err = "none"
  /\ AORaised =>
        /\ v.err = "AllProvidersFailed"
        /\ \A k \in 1..Len(providers) : ~Supports(k) \/ ProviderFailed(k)
  /\ (v.pc # "idle" /\ \A k \in 1..Len(providers) : ~Supports(k) \/ ProviderFailed(k))
        => AORaised
  /\ v.pc \in {"idle", "extract", "analyze", "cb_completed", "cb_failed"}

C15_Witness ==
  /\ AOReturned
  /\ providers = <<"openai_basic", "openai", "openai">>
  /\ pf[1].mime = "application/pdf"
  /\ pf[1].calls = <<[k |-> 2, m |-> "extractText", ok |-> TRUE],
                     [k |-> 2, m |-> "analyzeContent", ok |-> FALSE],
                     [k |-> 3, m |-> "extractText", ok |-> TRUE],
                     [k |-> 3, m |-> "analyzeContent", ok |-> TRUE]>>

\* -------------------------------------------------- claims on processFile
Has(log, e) == \E k \in 1..Len(log) : log[k] = e
Pos(log, e) ==
  IF Has(log, e) THEN CHOOSE k \in 1..Len(log) : log[k] = e /\ \A j \in 1..(k - 1) : log[j] # e
  ELSE 0
Precedes(log, a, b) == Has(log, b) => (Has(log, a) /\ Pos(log, a) < Pos(log, b))
Ended(v) == v.pc \in {"returned", "raised"}
FailedCallbackAttempted(log) ==
  Has(log, "failed_cb_unsupported") \/ Has(log, "failed_cb_catch")
AllStepsSucceeded(v) ==
  /\ hasCompatibleProvider(providers, v.mime)
  /\ Has(v.log, "download_done")
  /\ Has(v.log, "analyze_done")
  /\ Has(v.log, "completed_cb_ok")

\* C1: an invocation that has ended had, before it ended, its 'completed'
\* callback accepted or a 'failed' callback attempted (sendProcessingCallback
\* called with 'failed'); a normal return had the former, a raise the latter.
C1_NeverSilentlyDropped ==
  \A i \in Invocations :
    LET v == pf[i] IN
    /\ Ended(v) => (Has(v.log, "completed_cb_ok") \/ FailedCallbackAttempted(v.log))
    /\ v.pc = "returned" => Precedes(v.log, "completed_cb_ok", "returned")
    /\ v.pc = "raised" => Precedes(v.log, "failed_cb_catch", "raised")

C1_Witness ==
  \E i \in Invocations :
    /\ pf[i].pc = "raised"
    /\ Has(pf[i].log, "completed_cb_sent")
    /\ ~Has(pf[i].log, "completed_cb_ok")
    /\ Has(pf[i].log, "failed_cb_catch")

\* C2: processFile returns normally only when the compatibility check, the
\* content acquisition, the analysis and the 'completed' callback all
\* succeeded; it raises when one of them failed; and a started invocation
\* always has an awaited call to settle, each settling bringing it strictly
\* closer to its end, so with its awaited calls settling it ends in one of
\* the two ways.
C2_Outcome ==
  \A i \in Invocations :
    LET v == pf[i] IN
    /\ v.pc = "returned" => (AllStepsSucceeded(v) /\ v.thrown = "none")
    /\ (Ended(v) /\ ~AllStepsSucceeded(v)) => (v.pc = "raised" /\ v.thrown # "none")
    /\ Has(v.log, "error_caught") => v.pc # "returned"

\* the number of awaits an invocation at this position can still go through
SitesLeft(v) ==
  LET L == Len(providers) IN
  CASE v.pc = "import"            -> 2 * L + 15
    [] v.pc = "status_analyzing"  -> 2 * L + 14
    [] v.pc = "cb_unsupported"    -> 2 * L + 13
    [] v.pc = "get_url"           -> 2 * L + 13
    [] v.pc = "download"          -> 2 * L + 12
    [] v.pc = "extract"           -> 2 * (L - v.p) + 11
    [] v.pc = "analyze"           -> 2 * (L - v.p) + 10
    [] v.pc = "cb_completed"      -> 9
    [] v.pc = "save_results"      -> 8
    [] v.pc = "status_analyzed"   -> 7
    [] v.pc = "index_import"      -> 6
    [] v.pc = "get_metadata"      -> 5
    [] v.pc = "cb_failed"         -> 4
    [] v.pc = "cb_failed_handler" -> 3
    [] v.pc = "status_failed"     -> 2
    [] OTHER                      -> 0

\* the steps left: for every await its call's settling and the continuation
AwaitsLeft(v) == 2 * SitesLeft(v) + (IF v.pending = "op" THEN 1 ELSE 0)

C2_NeverStuck ==
  \A i \in Invocations :
    pf[i].pc \notin Quiescent =>
      ENABLED ((\E ok \in BOOLEAN : PFSettle(i, ok)) \/ PFResume(i))

C2_Progress ==
  \A i \in Invocations :
    (pf[i].pc \notin Quiescent /\ pf'[i] # pf[i]) =>
      (AwaitsLeft(pf'[i]) < AwaitsLeft(pf[i]) /\ AwaitsLeft(pf'[i]) >= 0)

C2_ReturnsOrRaises ==
  /\ []C2_Outcome
  /\ []C2_NeverStuck
  /\ [][C2_Progress]_vars

C2_Witness ==
  \E i \in Invocations :
    /\ pf[i].pc = "raised"
    /\ Has(pf[i].log, "download_sent")
    /\ ~Has(pf[i].log, "download_done")

\* C3: once a step of processFile has raised E, the 'failed' callback is
\* attempted, then 'analysis_failed' is emitted, then its handlers settle,
\* then E itself is raised to the caller -- also when the 'failed' callback
\* was rejected.
C3_FailureSequence ==
  \A i \in Invocations :
    LET v == pf[i] IN
    /\ v.pc = "raised" =>
         /\ Has(v.log, "error_caught")
         /\ Pos(v.log, "error_caught") < Pos(v.log, "failed_cb_catch")
         /\ Pos(v.log, "failed_cb_catch") < Pos(v.log, "emit_failed")
         /\ Pos(v.log, "emit_failed") < Pos(v.log, "failed_handlers_settled")
         /\ Pos(v.log, "failed_handlers_settled") < Pos(v.log, "raised")
         /\ v.err # "none"
         /\ v.thrown = v.err
    /\ Precedes(v.log, "error_caught", "failed_cb_catch")
    /\ Precedes(v.log, "failed_cb_catch", "emit_failed")
    /\ Precedes(v.log, "emit_failed", "failed_handlers_settled")

C3_Witness ==
  \E i \in Invocations :
    /\ pf[i].pc = "raised"
    /\ Has(pf[i].log, "failed_cb_catch_threw")
    /\ pf[i].thrown = "DownloadFailed"

\* C4: an invocation whose mimeType no configured provider supports requests
\* no signed URL, downloads nothing and calls no provider; when it ends it has
\* attempted a 'failed' callback and raised.
C4_UnsupportedFailsFast ==
  \A i \in Invocations :
    LET v == pf[i] IN
    (v.pc # "idle" /\ ~hasCompatibleProvider(providers, v.mime)) =>
      /\ ~Has(v.log, "signed_url_requested")
      /\ ~Has(v.log, "download_sent")
      /\ ~Has(v.log, "extract_text")
      /\ ~Has(v.log, "analyze_content")
      /\ v.pc \notin {"get_url", "download", "extract", "analyze", "returned"}
      /\ Ended(v) => (v.pc = "raised" /\ Has(v.log, "failed_cb_unsupported"))

C4_Witness ==
  \E i \in Invocations :
    /\ pf[i].pc = "raised"
    /\ providers = <<"openai_basic">>
    /\ pf[i].mime = "application/pdf"
    /\ pf[i].thrown = "UnsupportedFileType"

\* C5: within one invocation the download has completed before analyzeFile
\* starts, analyzeFile before the 'completed' callback is sent, the callback
\* before the save is sent, and both have settled before 'analysis_completed'
\* is emitted and before any search-index operation is queued.
C5_StrictSequence ==
  \A i \in Invocations :
    LET v == pf[i] IN
    /\ Precedes(v.log, "download_sent", "download_done")
    /\ Precedes(v.log, "download_done", "analyze_start")
    /\ Precedes(v.log, "analyze_start", "extract_text")
    /\ Precedes(v.log, "extract_text", "analyze_content")
    /\ Precedes(v.log, "analyze_content", "analyze_done")
    /\ Precedes(v.log, "analyze_done", "completed_cb_sent")
    /\ Precedes(v.log, "completed_cb_sent", "completed_cb_ok")
    /\ Precedes(v.log, "completed_cb_ok", "save_sent")
    /\ Precedes(v.log, "save_sent", "save_settled")
    /\ Precedes(v.log, "save_settled", "emit_completed")
    /\ Precedes(v.log, "emit_completed", "index_queued")
    /\ v.q.objs # <<>> => Has(v.log, "index_queued")

C5_Witness ==
  \E i \in Invocations :
    /\ pf[i].pc = "returned"
    /\ Has(pf[i].log, "index_queued")
    /\ Len(pf[i].q.objs) = Len(Engines)


\* the outcomes of the invocation's settled calls at a site
OutsAt(v, site) == {v.outs[k].out : k \in {j \in 1..Len(v.outs) : v.outs[j].site = site}}
\* a request that was actually sent failed
SentRequestFailed(v) == \E k \in 1..Len(v.outs) : v.outs[k].sent /\ v.outs[k].out # "returned_op"
\* every call made so far was sent and succeeded
EveryCallSucceeded(v) == \A k \in 1..Len(v.outs) : v.outs[k].out = "returned_op"
CompletedCallbackFailed(v) ==
  \E o \in OutsAt(v, "cb_completed") : o # "returned_op"
Count(log, e) == Cardinality({k \in 1..Len(log) : log[k] = e})
QInQueue(q, r) == \E k \in 1..Len(q.operations) : q.operations[k] = r

\* C16 (as claimed): when acquisition and analysis succeeded and the
\* 'completed' callback failed, processFile returns normally and produces no
\* 'failed' callback and no 'analysis_failed' event.
C16_CompletedCallbackNotFatal ==
  \A i \in Invocations :
    LET v == pf[i] IN
    (Has(v.log, "analyze_done") /\ CompletedCallbackFailed(v)) =>
      /\ ~FailedCallbackAttempted(v.log)
      /\ ~Has(v.log, "emit_failed")
      /\ v.pc # "raised"

\* the awaited callback has settled and processFile has not resumed yet
AtCompletedCallback(v) == v.pc = "cb_completed" /\ v.pending # "op"

\* C16 (amended): when acquisition and analysis succeeded and the 'completed'
\* callback failed, the callback's error is caught as soon as processFile
\* resumes, a 'failed' callback is attempted, nothing is saved, no
\* 'analysis_completed' is emitted and no index operation queued, and when
\* processFile ends it has emitted 'analysis_failed' and raised the
\* callback's error.
C16_CompletedCallbackFatal ==
  \A i \in Invocations :
    LET v == pf[i] IN
    (Has(v.log, "analyze_done") /\ CompletedCallbackFailed(v)) =>
      /\ ~AtCompletedCallback(v) =>
           /\ v.err \in {webhookError(o) : o \in OutsAt(v, "cb_completed")}
           /\ Has(v.log, "failed_cb_catch")
      /\ ~Has(v.log, "save_sent")
      /\ ~Has(v.log, "emit_completed")
      /\ v.q.objs = <<>>
      /\ v.pc # "returned"
      /\ v.pc = "raised" => (Has(v.log, "emit_failed") /\ v.thrown = v.err)

C16_Witness ==
  \E i \in Invocations :
    /\ pf[i].pc = "raised"
    /\ Has(pf[i].log, "analyze_done")
    /\ OutsAt(pf[i], "cb_completed") = {"threw_op_error"}
    /\ pf[i].thrown = "WebhookCallbackFailed"

\* C17: whatever the outcome of the 'analyzing' status update, and, once the
\* 'completed' callback was delivered, of the save, of the 'analyzed' status
\* update, of the metadata fetch and of the index operations, processFile
\* does not enter its catch block for them and ends by returning normally.
C17_BestEffortNeverFatal ==
  \A i \in Invocations :
    LET v == pf[i] IN
    /\ Has(v.log, "completed_cb_ok") =>
         /\ v.err = "none" /\ v.thrown = "none"
         /\ ~Has(v.log, "error_caught")
         /\ Ended(v) => v.pc = "returned"
    /\ (Ended(v) /\ AllStepsSucceeded(v)) => v.pc = "returned"
    /\ v.err # "none" =>
         v.err \in {"UnsupportedFileType", "WebhookCallbackFailed", "WebhookCritical",
                    "SignedUrlFailed", "DownloadFailed", "AllProvidersFailed"}

C17_Witness ==
  \E i \in Invocations :
    /\ pf[i].pc = "returned"
    /\ OutsAt(pf[i], "status_analyzing") = {"threw_op_error"}
    /\ OutsAt(pf[i], "save_results") = {"threw_op_error"}
    /\ \E r \in 1..Len(pf[i].q.objs) : pf[i].q.objs[r].currentRetry >= 1

\* C18 (as claimed): the search document queued for indexing has the event's
\* fileId as id and the provider's entities and topics.
C18_SearchDocFromAnalysis ==
  \A i \in Invocations :
    \A doc \in pf[i].doc :
      /\ doc.id = {pf[i].fileId}
      /\ doc.entities = {AIResult.entities}
      /\ doc.topics = {AIResult.topics}

\* the invocation has ended, for a supported mimeType, with every call it
\* made having succeeded
ScenarioAEnded(v) ==
  Ended(v) /\ hasCompatibleProvider(providers, v.mime) /\ EveryCallSucceeded(v)

\* such an invocation has returned normally, patched the status to
\* 'analyzed', emitted 'analysis_completed' once and 'analysis_failed' never,
\* and queued one index operation per configured backend
ScenarioAOutcome ==
  \A i \in Invocations :
    LET v == pf[i] IN
    ScenarioAEnded(v) =>
      /\ v.pc = "returned"
      /\ OutsAt(v, "status_analyzed") = {"returned_op"}
      /\ Count(v.log, "emit_completed") = 1
      /\ ~Has(v.log, "emit_failed")
      /\ Len(v.q.objs) = Len(Engines)
      /\ \A r \in 1..Len(v.q.objs) : v.q.objs[r].id[3] = Engines[r]

\* the index call of the r-th configured backend has been invoked
IndexAttempted(v, r) == r <= Len(v.q.objs) /\ v.q.hist[r].inv >= 1

\* C19 (as claimed): an invocation for a supported mimeType all of whose
\* calls succeed returns normally, patches the status to 'analyzed', emits
\* 'analysis_completed' once and 'analysis_failed' never, and an index call
\* is eventually attempted on every configured search backend.
C19_AllBackendsAttempted ==
  /\ []ScenarioAOutcome
  /\ \A r \in 1..Len(Engines) :
       ScenarioAEnded(pf[Followed]) ~> IndexAttempted(pf[Followed], r)

\* C20 (as claimed): an invocation for a supported mimeType none of whose
\* requests was turned down by a service or provider returns normally,
\* whatever happened to other invocations.
C20_IndependentFiles ==
  \A i \in Invocations :
    LET v == pf[i] IN
    (Ended(v) /\ hasCompatibleProvider(providers, v.mime) /\ ~SentRequestFailed(v)) =>
      v.pc = "returned"

\* C22 (as claimed): an invocation whose mimeType no provider supports raises
\* the unsupported-type error, whatever the outcomes of the 'analyzing'
\* status update and of the 'failed' callback, and has requested no signed
\* URL and no download.
C22_UnsupportedErrorRaised ==
  \A i \in Invocations :
    LET v == pf[i] IN
    (v.pc = "raised" /\ ~hasCompatibleProvider(providers, v.mime)) =>
      /\ v.thrown = "UnsupportedFileType"
      /\ ~Has(v.log, "signed_url_requested")
      /\ ~Has(v.log, "download_sent")

\* the calls of sendProcessingCallback(..., 'failed', ...) an invocation has
\* made: processFile's unsupported branch and catch block use the job id of
\* line 101, handleAnalysisFailure a job id of its own
failedCallbackAttempts(log) ==
  Count(log, "failed_cb_unsupported") + Count(log, "failed_cb_catch")
    + Count(log, "failed_cb_handler")

\* C30 (as claimed): an invocation that has raised attempted the 'failed'
\* callback exactly once.
C30_OneFailedCallback ==
  \A i \in Invocations :
    pf[i].pc = "raised" => failedCallbackAttempts(pf[i].log) = 1

\* ------------------------------------------- claims on the isolate's state
Skimmers == 1..Len(isolate.skimmers)
Calls == 1..Len(isolate.calls)
\* call a has returned a result that it computed and stored in the cache
\* of its provider
StoredResult(a) ==
  /\ isolate.calls[a].out = "returned"
  /\ isolate.calls[a].served = "computed"
  /\ ~isolate.calls[a].result.fallback

\* the spend recorded by the calls of the process whose remote call succeeded
RECURSIVE SpendOf(_)
SpendOf(n) ==
  IF n = 0 THEN 0
  ELSE SpendOf(n - 1) + (IF isolate.calls[n].remote = "ok"
                         THEN isolate.calls[n].decision.estimatedCost ELSE 0)

\* C21 (as claimed): the result cache and the recorded spend are process-wide:
\* an analysis of content whose result an earlier request of the process has
\* stored (less than 24 hours before) is served from the cache, and the
\* provider any request works with has all the spend of the process on record.
C21_ProcessWideState ==
  /\ \A a, b \in Calls :
       ( /\ StoredResult(a)
         /\ isolate.calls[a].doneAt < b
         /\ isolate.calls[b].content = isolate.calls[a].content
         /\ isolate.calls[b].mime = isolate.calls[a].mime )
       => isolate.calls[b].served = "cache"
  /\ \A k \in Skimmers : isolate.skimmers[k].cost.dailySpend = SpendOf(Len(isolate.calls))

\* call a ran its policy decision and the decision was not to call the
\* remote model
SkippedByDecision(a) ==
  /\ isolate.calls[a].decision # NoDecision
  /\ ~isolate.calls[a].decision.useAI

\* the result is made of the rule-based enrichment of the call's content,
\* with the summary cut from the content
FromEnrichment(a) ==
  LET call == isolate.calls[a] IN
  /\ call.out = "returned"
  /\ call.result.enriched = performFullEnrichment(call.content, call.mime, call.enrichedAt)
  /\ call.result.summary = "fallback"
  /\ call.result.topics \in {"primary", "primary+secondary"}

\* C29: an analyzeContent call whose remote-model call failed, or whose
\* policy decision skipped the remote call, returns a result built from the
\* rule-based enrichment; a call raises only when the enrichment itself
\* throws, which it does for content that is not a string.
C29_EnrichmentAlwaysReturned ==
  \A a \in Calls :
    /\ (isolate.calls[a].remote = "failed" /\ isolate.calls[a].out # "pending")
         => FromEnrichment(a)
    /\ (SkippedByDecision(a) /\ isolate.calls[a].out # "pending") => FromEnrichment(a)
    /\ isolate.calls[a].out = "raised" => ~isolate.calls[a].content.isString

C29_Witness ==
  \E a, b \in Calls :
    /\ isolate.calls[a].remote = "failed" /\ isolate.calls[a].result.fallback
    /\ SkippedByDecision(b) /\ isolate.calls[b].out = "returned"

\* ------------------------------------ claims on the breaker's failure count
\* C35: for a threshold N >= 1, under any interleaving of execute calls (and
\* of reset() as well), the breaker is CLOSED
\* exactly when its failure count is below the threshold; OPEN and HALF_OPEN
\* have a count of at least the threshold.
C35_ClosedIffBelowThreshold ==
  cbCfg.failureThreshold >= 1 =>
    /\ cb.state = "CLOSED" <=> cb.failures < cbCfg.failureThreshold
    /\ cb.state \in {"OPEN", "HALF_OPEN"} => cb.failures >= cbCfg.failureThreshold

C35_Witness ==
  /\ cb.state = "HALF_OPEN"
  /\ cb.failures > cbCfg.failureThreshold
  /\ \E c \in Slots : cbCalls[c].pc # "idle"

\* ------------------------------------ claims on re-registration in the queue
\* registration r was made under an id that an earlier registration used
Reregistered(r) == \E r0 \in 1..(r - 1) : rq.objs[r0].id = rq.objs[r].id

\* C33 (as claimed): a registration made under an id registered before is
\* not removed or altered by anything but its own attempts: as long as it has
\* not been invoked and has not itself been replaced it is still queued, with
\* a retry count of 0.
C33_ReplacementSurvives ==
  \A r \in Regs :
    (Reregistered(r) /\ rq.hist[r].inv = 0 /\ ~rq.hist[r].replaced) =>
      (InQueue(r) /\ rq.objs[r].currentRetry = 0)

\* C34: whenever operations are queued, a pass is running (and is awaiting
\* an operation) or a timer for a further pass is pending, due no later than
\* PassDelay after the end of the last pass; this holds in particular for an
\* operation that was added while a pass was in progress and has not been
\* attempted yet.
C34_AlwaysAFutureAttempt ==
  /\ rq.operations # <<>> => (rq.isProcessing \/ rq.timers # <<>>)
  /\ rq.isProcessing => rq.ready # <<>>
  /\ \A k \in 1..Len(rq.timers) : rq.timers[k] <= rq.lastEnd + PassDelay
  /\ \A r \in Regs :
       (InQueue(r) /\ rq.hist[r].inv = 0) =>
         \/ rq.isProcessing
         \/ rq.timers # <<>> /\ rq.objs[r].nextRetryAt <= rq.timers[Len(rq.timers)]

C34_Witness ==
  \E r \in Regs :
    /\ InQueue(r) /\ rq.hist[r].inv = 0
    /\ ~rq.isProcessing
    /\ rq.timers # <<>>
    /\ \E r0 \in Regs : rq.hist[r0].ok

\* ------------------------------------- claims on independent queue entries
\* the step is the failure of the attempt the pass is awaiting
AttemptFails ==
  /\ rq.isProcessing /\ rq.ready # <<>>
  /\ rq'.objs[Head(rq.ready)].currentRetry = rq.objs[Head(rq.ready)].currentRetry + 1

QueuedAfter(r) == \E p \in 1..Len(rq'.operations) : rq'.operations[p] = r

\* C36: when an attempt fails (also for the last time), every registration
\* under another id keeps its object unchanged (retry count, next attempt
\* time) and stays queued if it was; and the pass goes on: the next ready
\* operation of the pass is invoked in the same step.
C36_Step ==
  AttemptFails =>
    LET r == Head(rq.ready)  rest == Tail(rq.ready) IN
    /\ \A r2 \in Regs :
         rq.objs[r2].id # rq.objs[r].id =>
           /\ rq'.objs[r2] = rq.objs[r2]
           /\ InQueue(r2) <=> QueuedAfter(r2)
           /\ rq'.hist[r2].ok = rq.hist[r2].ok
    /\ rest # <<>> =>
         /\ rq'.isProcessing /\ rq'.ready = rest
         /\ rq'.hist[Head(rest)].inv = rq.hist[Head(rest)].inv + 1

C36_BackendsIndependent == [][C36_Step]_vars

C36_Witness ==
  \E r, r2 \in Regs :
    /\ rq.objs[r].id # rq.objs[r2].id
    /\ InFlight(r2)
    /\ rq.objs[r].currentRetry >= 1
    /\ rq.failedAt[r] > rq.passNow
    /\ rq.objs[r].nextRetryAt = rq.passNow + Pow2(rq.objs[r].currentRetry) * BackoffBase
    /\ rq.invokedAt[r2] = rq.failedAt[r]

\* ------------------------------------- claims on processFile's terminal events
\* C31: an invocation that has returned or raised has emitted exactly one of
\* 'analysis_completed' and 'analysis_failed', the former exactly when it
\* returned; and no invocation whose 'completed' callback was delivered has
\* attempted a 'failed' callback.
C31_OneTerminalEvent ==
  \A i \in Invocations :
    LET v == pf[i] IN
    /\ Ended(v) =>
         /\ Count(v.log, "emit_completed") + Count(v.log, "emit_failed") = 1
         /\ Has(v.log, "emit_completed") <=> v.pc = "returned"
    /\ Has(v.log, "completed_cb_ok") => failedCallbackAttempts(v.log) = 0

C31_Witness ==
  \E i \in Invocations :
    /\ pf[i].pc = "returned"
    /\ Has(pf[i].log, "completed_cb_ok")
    /\ Has(pf[i].log, "status_analyzed_failed")
    /\ Count(pf[i].log, "emit_completed") = 1

\* C32 (as claimed): an invocation that has returned normally after queueing
\* its index operations has had an index call started for every configured
\* search backend.
C32_IndexStartedBeforeReturn ==
  \A i \in Invocations :
    LET v == pf[i] IN
    (v.pc = "returned" /\ Has(v.log, "index_queued")) =>
      /\ Len(v.q.objs) = Len(Engines)
      /\ \A r \in 1..Len(v.q.objs) : v.q.hist[r].inv >= 1

\* ------------------------------------------- claims on the cost service
\* C37 (as claimed): no analyzeContent call makes its remote-model call at a
\* moment when the provider's recorded spend of the day has reached the
\* daily budget, whether the call runs alone or concurrently with the call
\* whose usage reached the budget.
C37_NoRemoteCallPastBudget ==
  \A a \in Calls : ~isolate.calls[a].overBudget

\* C38 (as claimed): a call that finds a cache entry of 24 hours or more for
\* its content does not return the stale result and uses the remote model
\* exactly when the policy would use it for never-seen content.
C38_StaleEntryAsUncached ==
  \A a \in Calls :
    isolate.calls[a].stale =>
      /\ isolate.calls[a].served # "cache"
      /\ isolate.calls[a].decision.useAI = isolate.calls[a].asNew.useAI

\* ------------------------------------------- claims on the result cache
\* C39: every cacheResult and getCachedResult call leaves at most CacheCap
\* entries in the cache; a write of a new key to a full cache removes
\* exactly the key inserted earliest and puts the new key last; a write of
\* a new key to a cache below the cap removes nothing; a read, and a write
\* of a key that is in the cache, leave the keys and their order (so the key
\* evicted next) as they were.
C39_Step ==
  LET keys == KeysOf(CCCache)
      after == KeysOf(isolate'.skimmers[1].cost.cache)
      l == isolate'.last IN
  /\ Len(after) <= CacheCap
  /\ l.op = "read" => after = keys
  /\ (l.op = "write" /\ l.found) => after = keys
  /\ (l.op = "write" /\ ~l.found /\ Len(keys) < CacheCap) => after = Append(keys, l.key)
  /\ (l.op = "write" /\ ~l.found /\ Len(keys) = CacheCap) => after = Append(Tail(keys), l.key)
  /\ l.op = "fill" => SubSeq(after, 1, Len(keys)) = keys
C39_InsertionOrderEviction == [][C39_Step]_vars
\* a key that was read or written again while in the cache has been evicted
\* from the full cache by the insertion of a new key
C39_Witness ==
  /\ Len(CCCache) = CacheCap
  /\ isolate.last.op = "write"
  /\ ~isolate.last.found
  /\ \E key \in isolate.touched : ~InCache(isolate.skimmers[1].cost, key)

\* ------------------------------------------- claims on the health checks
\* the names registered when runChecks returned
Registered == {health.checks[k].name : k \in 1..health.atReturn}
FailedChecks == {n \in Registered : health.results[n].status = "fail"}
WarnedChecks == {n \in Registered : health.results[n].status = "warn"}
\* the function called for the check did not settle within 5000 ms, or threw
\* or rejected
TimedOutOrThrew(fn) ==
  \/ fn.kind \in {"throws", "reject", "hangs"}
  \/ fn.delay > HCTimeout
RunChecksResult ==
  health.pc = "done" =>
    /\ \A n \in Registered : health.results[n].status \in {"pass", "warn", "fail"}
    /\ \A n \in Registered :
         TimedOutOrThrew(health.results[n].check) => health.results[n].status = "fail"
    /\ health.status = "unhealthy" <=> FailedChecks # {}
    /\ health.status = "degraded" <=> (FailedChecks = {} /\ WarnedChecks # {})
    /\ health.status = "healthy" <=> (FailedChecks = {} /\ WarnedChecks = {})
\* C40: a runChecks call that is awaiting a check returns in the end, and
\* when it has returned every registered check has a result, 'fail' for a
\* check that threw, rejected or had not settled within 5000 ms (the checks
\* after it having been run all the same), and the overall status is
\* 'unhealthy' exactly when some check failed, 'degraded' exactly when none
\* failed and some warned, 'healthy' otherwise.
C40_RunChecksTerminates ==
  /\ [](RunChecksResult)
  /\ (health.pc = "waiting") ~> (health.pc = "done")
\* a run has returned in which a check timed out, a later check warned and
\* another check was run after a failure
C40_Witness ==
  /\ health.pc = "done"
  /\ Len(health.checks) >= 2
  /\ \E k \in 1..Len(health.checks) - 1 :
       /\ health.results[health.checks[k].name].check.kind = "hangs"
       /\ health.results[health.checks[k].name].duration = HCTimeout
       /\ health.results[health.checks[k + 1].name].status = "warn"
  /\ health.status = "unhealthy"

====
